---- MODULE Spec2Model ----
(***************************************************************************)
(* Model of the unified QMC + NPrinting workflow (src/graph.py): the       *)
(* state record, the stage functions, the routing functions and the        *)
(* superstep execution of the compiled graph (all stages triggered for a   *)
(* step read the same state, their partial updates are merged afterwards). *)
(*                                                                         *)
(* Python dicts are functions with string domains, Optional values are     *)
(* sequences of length 0 (None) or 1, messages are tuples of strings.      *)
(***************************************************************************)
EXTENDS Integers, Sequences, FiniteSets, TLC

\* ---------------------------------------------------------------- bounds
\* Login executions of a run that re-enter login without raising the chain's
\* retry counter (the loop through them is otherwise unbounded).
MaxUncounted == 1

\* Length of the row lists handed to a group analysis.
MaxRows == 2

\* Number of groups in a report map handed to the combiner.
MaxGroups == 2

\* Number of groups in the two report maps handed to the combiner together.
MaxCombined == 4

\* ------------------------------------------------------------- constants
DefaultMaxRetries == 3

None == <<>>
Some(v) == <<v>>

\* A log line or message: a tuple of strings.
Line(text) == <<text>>

\* dict.get(k, default)
Get(d, k, default) == IF k \in DOMAIN d THEN d[k] ELSE default

\* dict with key k removed (dict.pop)
Pop(d, k) == [x \in DOMAIN d \ {k} |-> d[x]]

\* dict with d[k] = v assigned
Put(d, k, v) == (k :> v) @@ d

\* ------------------------------------------------------------ the state
StateKeys ==
  {"current_step", "retry_count", "max_retries", "session_cookies",
   "browser_state_path", "page_html", "raw_table_data", "structured_data",
   "process_reports", "nprinting_cookies", "nprinting_state_path",
   "nprinting_retry_count", "nprinting_raw_data", "nprinting_data",
   "nprinting_reports", "combined_report", "report_image_path",
   "error_message", "qmc_error", "nprinting_error", "screenshots", "logs"}

\* Fields declared Annotated[List[str], add]: merged by concatenation.
AppendKeys == {"screenshots", "logs"}

\* An initial state that carries one failed login over from an earlier run.
create_initial_state_carried ==
  [current_step |-> "init", retry_count |-> 1, max_retries |-> DefaultMaxRetries,
   session_cookies |-> None, browser_state_path |-> None, page_html |-> None,
   raw_table_data |-> None, structured_data |-> None, process_reports |-> None,
   nprinting_cookies |-> None, nprinting_state_path |-> None,
   nprinting_retry_count |-> 0, nprinting_raw_data |-> None,
   nprinting_data |-> None, nprinting_reports |-> None,
   combined_report |-> None, report_image_path |-> None,
   error_message |-> None, qmc_error |-> None, nprinting_error |-> None,
   screenshots |-> <<>>, logs |-> <<>>]

\* state.py create_initial_state
create_initial_state ==
  [current_step |-> "init", retry_count |-> 0, max_retries |-> DefaultMaxRetries,
   session_cookies |-> None, browser_state_path |-> None, page_html |-> None,
   raw_table_data |-> None, structured_data |-> None, process_reports |-> None,
   nprinting_cookies |-> None, nprinting_state_path |-> None,
   nprinting_retry_count |-> 0, nprinting_raw_data |-> None,
   nprinting_data |-> None, nprinting_reports |-> None,
   combined_report |-> None, report_image_path |-> None,
   error_message |-> None, qmc_error |-> None, nprinting_error |-> None,
   screenshots |-> <<>>, logs |-> <<>>]

\* ------------------------------------------------ the child-process runner
\* What can happen to the child process.
ProcOutcomes == {"not_found", "nonzero_exit", "bad_json", "timeout", "exception", "ran"}

\* A runner that lets the timeout of the child process reach its caller.
run_playwright_script_raising(proc, output) ==
  CASE proc = "not_found" ->
         [success |-> FALSE, error |-> <<"Script not found">>]
    [] proc = "nonzero_exit" ->
         [success |-> FALSE, error |-> <<"Process exited with code">>, stdout |-> ""]
    [] proc = "bad_json" ->
         [success |-> FALSE, error |-> <<"Failed to parse script output as JSON">>,
          stdout |-> "", stderr |-> ""]
    [] proc = "timeout" -> [raised |-> "TimeoutExpired"]
    [] proc = "exception" ->
         [success |-> FALSE, error |-> <<"exception">>]
    [] OTHER -> output

\* playwright_runner.py run_playwright_script: what it returns to the stage
\* (a record with the field raised would be an exception leaving it).
run_playwright_script(proc, output) ==
  CASE proc = "not_found" ->
         [success |-> FALSE, error |-> <<"Script not found">>]
    [] proc = "nonzero_exit" ->
         [success |-> FALSE, error |-> <<"Process exited with code">>, stdout |-> ""]
    [] proc = "bad_json" ->
         [success |-> FALSE, error |-> <<"Failed to parse script output as JSON">>,
          stdout |-> "", stderr |-> ""]
    [] proc = "timeout" ->
         [success |-> FALSE, error |-> <<"Script timed out after 120 seconds">>]
    [] proc = "exception" ->
         [success |-> FALSE, error |-> <<"exception">>]
    [] OTHER -> output

\* --------------------------------------------------------- login scripts
\* Cookie jars context.cookies() can yield, as sets of cookie names.
CookieJars == {{}, {"sid"}}

\* What can happen inside a login script.
LoginOutcomes == {"ok", "fail", "init_fail"}

\* scripts/login_script.py main(): the JSON it prints.
qmc_login_script(args, outcome, cookies) ==
  CASE outcome = "ok" ->
         [success |-> TRUE, current_step |-> "filter",
          session_cookies |-> Some(cookies),
          browser_state_path |-> Some("browser_state.json"),
          error_message |-> None, logs |-> <<Line("LOGIN_SCRIPT: Login successful")>>]
    [] outcome = "fail" ->
         LET new_retry_count == args.retry_count + 1 IN
         [success |-> FALSE,
          current_step |-> IF new_retry_count >= args.max_retries THEN "error" ELSE "login",
          retry_count |-> new_retry_count,
          error_message |-> Some(<<"login error">>),
          screenshots |-> <<"error_login.png">>,
          logs |-> <<Line("LOGIN_SCRIPT: Error")>>]
    [] OTHER ->
         [success |-> FALSE,
          error_message |-> Some(<<"Playwright initialization failed">>),
          logs |-> <<Line("FATAL")>>]

\* scripts/nprinting/login_script.py main(): the JSON it prints.
nprinting_login_script(args, outcome, cookies) ==
  CASE outcome = "ok" ->
         [success |-> TRUE, current_step |-> "nprinting_extract",
          nprinting_cookies |-> Some(cookies),
          nprinting_state_path |-> Some("nprinting_browser_state.json"),
          error_message |-> None, logs |-> <<Line("NPRINTING_LOGIN: ok")>>]
    [] outcome = "fail" ->
         LET new_retry_count == args.retry_count + 1 IN
         [success |-> FALSE,
          current_step |-> IF new_retry_count >= args.max_retries
                           THEN "error" ELSE "nprinting_login",
          retry_count |-> new_retry_count,
          error_message |-> Some(<<"login error">>),
          screenshots |-> <<"error_nprinting_login.png">>,
          logs |-> <<Line("NPRINTING_LOGIN: Error")>>]
    [] OTHER ->
         [success |-> FALSE,
          error_message |-> Some(<<"Playwright initialization failed">>),
          logs |-> <<Line("FATAL")>>]

\* ----------------------------------------------------------- login nodes
\* nodes/qmc/login_node_sync.py: the script's result is returned as the
\* state update, error_message renamed and session_cookies defaulted.
login_node_sync(state, proc, outcome, cookies) ==
  LET args == [retry_count |-> state.retry_count, max_retries |-> state.max_retries]
      result == run_playwright_script(proc, qmc_login_script(args, outcome, cookies))
      r1 == IF Get(result, "error_message", None) # None
            THEN Put(Pop(result, "error_message"), "qmc_error", result["error_message"])
            ELSE result
  IN IF "session_cookies" \notin DOMAIN r1 THEN Put(r1, "session_cookies", None) ELSE r1

\* A login node of source B that keeps its failures in the counter of
\* source A.
nprinting_login_node_shared_counter(state, proc, outcome, cookies) ==
  LET args == [retry_count |-> state.nprinting_retry_count,
               max_retries |-> state.max_retries]
      result == run_playwright_script(proc, nprinting_login_script(args, outcome, cookies))
  IN IF Get(result, "success", FALSE)
     THEN [nprinting_cookies |-> Get(result, "nprinting_cookies", None),
           nprinting_state_path |-> Get(result, "nprinting_state_path", None),
           logs |-> Get(result, "logs", <<>>)]
     ELSE [retry_count |-> Get(result, "retry_count", 0),
           nprinting_error |-> Get(result, "error_message", None),
           nprinting_cookies |-> None,
           logs |-> Get(result, "logs", <<>>)]

\* nodes/nprinting/login_node.py
nprinting_login_node(state, proc, outcome, cookies) ==
  LET args == [retry_count |-> state.nprinting_retry_count,
               max_retries |-> state.max_retries]
      result == run_playwright_script(proc, nprinting_login_script(args, outcome, cookies))
  IN IF Get(result, "success", FALSE)
     THEN [nprinting_cookies |-> Get(result, "nprinting_cookies", None),
           nprinting_state_path |-> Get(result, "nprinting_state_path", None),
           logs |-> Get(result, "logs", <<>>)]
     ELSE [nprinting_retry_count |-> Get(result, "retry_count", 0),
           nprinting_error |-> Get(result, "error_message", None),
           nprinting_cookies |-> None,
           logs |-> Get(result, "logs", <<>>)]

\* ------------------------------------------------------------- extractors
\* A task row as the extraction scripts return it.
Row1 == [name |-> "t1", Tags |-> "g1", status |-> "Success"]

\* Row lists an extraction can return.
RowLists == {<<Row1>>}

\* What can happen inside an extraction script (scripts/qmc/extract_script_v2.py,
\* scripts/nprinting/extract_script.py): rows, or a structured failure.
qmc_extract_script(ok, rows) ==
  IF ok
  THEN [success |-> TRUE, raw_table_data |-> rows, total_extracted |-> Len(rows),
        pagination_clicks |-> 0]
  ELSE [success |-> FALSE, error |-> <<"extract error">>]

nprinting_extract_script(ok, rows) ==
  IF ok
  THEN [success |-> TRUE, raw_data |-> rows, total |-> Len(rows), pages_extracted |-> 1,
        filter_applied |-> TRUE, pagination_clicked |-> TRUE]
  ELSE [success |-> FALSE, error |-> <<"extract error">>, screenshot |-> None]

\* nodes/qmc/extractor.py
extractor_node(state, proc, ok, rows) ==
  LET result == run_playwright_script(proc, qmc_extract_script(ok, rows)) IN
  IF ~Get(result, "success", FALSE)
  THEN [qmc_error |-> Some(<<"QMC Extraction failed: ">> \o Get(result, "error", <<"None">>)),
        structured_data |-> Some(<<>>),
        logs |-> <<Line("QMC Extraction Error")>>]
  ELSE [raw_table_data |-> Some(Get(result, "raw_table_data", <<>>)),
        structured_data |-> Some(Get(result, "raw_table_data", <<>>)),
        logs |-> <<Line("QMC: Extracted tasks")>>]

\* nodes/nprinting/extractor.py
nprinting_extractor_node(state, proc, ok, rows) ==
  LET result == run_playwright_script(proc, nprinting_extract_script(ok, rows)) IN
  IF ~Get(result, "success", FALSE)
  THEN [nprinting_error |->
          Some(<<"NPrinting extraction failed: ">> \o Get(result, "error", <<"None">>)),
        nprinting_data |-> Some(<<>>),
        logs |-> <<Line("NPrinting Extraction Error")>>]
  ELSE [nprinting_raw_data |-> Some(Get(result, "raw_data", <<>>)),
        nprinting_data |-> Some(Get(result, "raw_data", <<>>)),
        logs |-> <<Line("NPrinting: Extracted tasks")>>]

\* `x or default` for an Optional value
OrElse(opt, default) == IF opt = None THEN default ELSE opt[1]

\* --------------------------------------------------------------- analysts
EmptyMap == [g \in {} |-> None]

\* Group-report maps the group analysis of a non-empty row list can yield.
AnalysisMaps ==
  {[g \in {"g1"} |-> [status |-> "Success", summary |-> "ok"]],
   [g \in {"g1"} |-> [status |-> "Error", summary |-> "LLM Analysis failed"]]}

\* nodes/qmc/analyst_llm.py analyst_llm_node: no rows, no reports.
analyst_llm_node(state, analysis) ==
  LET all_tasks == OrElse(state.structured_data, <<>>) IN
  IF all_tasks = <<>>
  THEN [process_reports |-> Some(EmptyMap), logs |-> <<Line("QMC: No data to analyze")>>]
  ELSE [process_reports |-> Some(analysis), logs |-> <<Line("QMC: Analyzed process groups")>>]

\* nodes/nprinting/analyst.py nprinting_analyst_node
nprinting_analyst_node(state, analysis) ==
  LET all_tasks == OrElse(state.nprinting_data, <<>>) IN
  IF all_tasks = <<>>
  THEN [nprinting_reports |-> Some(EmptyMap), logs |-> <<Line("NPrinting: No data to analyze")>>]
  ELSE [nprinting_reports |-> Some(analysis),
        logs |-> <<Line("NPrinting: Analyzed process groups")>>]

\* ------------------------------------------------------- group analysis
\* Config.MONITORED_PROCESSES: tag -> alias
MONITORED_PROCESSES ==
  [FE_HITOS_DIARIO |-> "Hitos", FE_COBRANZAS_DIARIA |-> "Cobranzas",
   FE_PASIVOS |-> "Pasivos", FE_PRODUCCION |-> "Reporte de Produccion",
   FE_CALIDADCARTERA_DIARIO |-> "Calidad de Cartera"]

\* Config.NPRINTING_MONITORED: prefix -> alias
NPRINTING_MONITORED ==
  ("h." :> "Hitos") @@ ("q1." :> "Calidad de Cartera")
  @@ ("k." :> "Reporte de Produccion") @@ ("x." :> "Cobranzas")

\* The characters of a configured prefix.
Chars(prefix) ==
  CASE prefix = "h." -> <<"h", ".">> [] prefix = "q1." -> <<"q", "1", ".">>
    [] prefix = "k." -> <<"k", ".">> [] prefix = "x." -> <<"x", ".">>

\* @retry(stop=stop_after_attempt(3), ...)
stop_after_attempt == 3

\* The values AnalysisResult.status accepts.
AnalysisStatus == {"Success", "Running", "Failed", "Pending"}

\* A schema that accepts whatever the collaborator answered.
AnalysisResult_unvalidated(raw) == [ok |-> TRUE, value |-> raw]

\* AnalysisResult(**raw).model_dump(), or a validation error. Unknown keys are
\* ignored, the task lists default to the empty list.
AnalysisResult(raw) ==
  IF "status" \in DOMAIN raw /\ raw["status"] \in AnalysisStatus /\ "summary" \in DOMAIN raw
  THEN [ok |-> TRUE,
        value |-> [status |-> raw["status"], summary |-> raw["summary"],
                   failed_tasks |-> Get(raw, "failed_tasks", <<>>),
                   running_tasks |-> Get(raw, "running_tasks", <<>>)]]
  ELSE [ok |-> FALSE, error |-> "validation error"]

\* NPrintingAnalysisResult(**raw).model_dump()
NPrintingAnalysisResult(raw) ==
  LET r == AnalysisResult(raw) IN
  IF r.ok
  THEN [ok |-> TRUE,
        value |-> [status |-> r.value.status, summary |-> r.value.summary,
                   failed_tasks |-> r.value.failed_tasks,
                   running_tasks |-> r.value.running_tasks,
                   total_tasks |-> Get(raw, "total_tasks", 0),
                   completed_tasks |-> Get(raw, "completed_tasks", 0)]]
  ELSE r

\* The first item of a JSON list that has the keys status and summary.
analysis_item(items) ==
  LET found == {i \in 1..Len(items) :
                  "status" \in DOMAIN items[i] /\ "summary" \in DOMAIN items[i]}
  IN IF found = {} THEN None
     ELSE Some(items[CHOOSE i \in found : \A j \in found : i <= j])

\* _parse_llm_response of both analysts, on the collaborator's text with its
\* fences stripped: kind is what json.loads makes of it ("bad_json" when it
\* raises, "dict", "list", or "scalar" for any other JSON value); source
\* selects the output schema of the analyst ("qmc" or "nprinting").
parse_llm_response(content, source) ==
  IF content.kind = "bad_json" THEN [ok |-> FALSE, error |-> "invalid JSON"]
  ELSE IF content.kind = "list" /\ analysis_item(content.items) = None
  THEN [ok |-> FALSE, error |-> "LLM returned a list of raw tasks instead of analysis"]
  ELSE IF content.kind = "scalar" THEN [ok |-> FALSE, error |-> "LLM returned unexpected format"]
  ELSE LET raw == IF content.kind = "list" THEN analysis_item(content.items)[1]
                  ELSE content.value
       IN IF "status" \notin DOMAIN raw
          THEN [ok |-> FALSE, error |-> "LLM returned unexpected format"]
          ELSE IF source = "qmc" THEN AnalysisResult(raw)
          ELSE NPrintingAnalysisResult(raw)

\* _analyze_with_retry: replies[i] is what the collaborator does on attempt i
\* (kind "raise": chain.invoke raises). Every exception is retried until the
\* attempts are used up; calls counts the invocations of the collaborator.
RECURSIVE analyze_with_retry(_, _, _)
analyze_with_retry(replies, attempt, source) ==
  LET parsed == IF replies[attempt].kind = "raise"
                THEN [ok |-> FALSE, error |-> "transport error"]
                ELSE parse_llm_response(replies[attempt], source)
  IN IF parsed.ok THEN [ok |-> TRUE, value |-> parsed.value, calls |-> attempt]
     ELSE IF attempt >= stop_after_attempt THEN [ok |-> FALSE, calls |-> attempt]
     ELSE analyze_with_retry(replies, attempt + 1, source)

\* An except branch that reports the group as failed, with the cause alone.
AnalysisFailedAsFailed ==
  [status |-> "Failed", summary |-> <<"RetryError">>]

\* The except branch of analyze_group / analyze_nprinting_group.
AnalysisFailed ==
  [status |-> "Error", summary |-> <<"LLM Analysis failed: ", "RetryError">>]

\* The fields of a row that the collaborator is given.
simplified(t) ==
  ("Last execution" :> Get(t, "Last execution", None))
  @@ [Name |-> Get(t, "Name", ""), Status |-> Get(t, "Status", "")]

\* analyze_group, lines 91-98: the rows sent to the collaborator. Only rows
\* whose Enabled is "Yes" are sent.
simplified_tasks(tasks) ==
  LET enabled == SelectSeq(tasks, LAMBDA t : Get(t, "Enabled", "") = "Yes") IN
  [i \in 1..Len(enabled) |-> simplified(enabled[i])]

\* A group analysis that sends every row, the disabled ones included.
analyze_group_unfiltered(tasks, replies) ==
  IF tasks = <<>>
  THEN [report |-> [status |-> "No Data",
                    summary |-> <<"No tasks found for this process today.">>],
        calls |-> 0, sent |-> <<>>]
  ELSE LET r == analyze_with_retry(replies, 1, "qmc") IN
       [report |-> IF r.ok THEN r.value ELSE AnalysisFailed, calls |-> r.calls,
        sent |-> [i \in 1..Len(tasks) |-> simplified(tasks[i])]]

\* nodes/qmc/analyst_llm.py analyze_group: the report, the number of
\* collaborator invocations and the rows sent to the collaborator.
analyze_group(tasks, replies) ==
  IF tasks = <<>>
  THEN [report |-> [status |-> "No Data",
                    summary |-> <<"No tasks found for this process today.">>],
        calls |-> 0, sent |-> <<>>]
  ELSE IF simplified_tasks(tasks) = <<>>
  THEN [report |-> [status |-> "No Run",
                    summary |-> <<"No ENABLED tasks found for this process today.">>],
        calls |-> 0, sent |-> <<>>]
  ELSE LET r == analyze_with_retry(replies, 1, "qmc") IN
       [report |-> IF r.ok THEN r.value ELSE AnalysisFailed, calls |-> r.calls,
        sent |-> simplified_tasks(tasks)]

\* nodes/nprinting/analyst.py analyze_nprinting_group
analyze_nprinting_group(tasks, replies) ==
  IF tasks = <<>>
  THEN [report |-> [status |-> "No Data",
                    summary |-> <<"No tasks found for this process today.">>],
        calls |-> 0]
  ELSE LET r == analyze_with_retry(replies, 1, "nprinting") IN
       [report |-> IF r.ok THEN r.value ELSE AnalysisFailed, calls |-> r.calls]

\* The characters of a monitored tag.
TagChars(tag) ==
  CASE tag = "FE_HITOS_DIARIO" ->
         <<"F", "E", "_", "H", "I", "T", "O", "S", "_", "D", "I", "A", "R", "I",
           "O">>
    [] tag = "FE_COBRANZAS_DIARIA" ->
         <<"F", "E", "_", "C", "O", "B", "R", "A", "N", "Z", "A", "S", "_", "D",
           "I", "A", "R", "I", "A">>
    [] tag = "FE_PASIVOS" ->
         <<"F", "E", "_", "P", "A", "S", "I", "V", "O", "S">>
    [] tag = "FE_PRODUCCION" ->
         <<"F", "E", "_", "P", "R", "O", "D", "U", "C", "C", "I", "O", "N">>
    [] tag = "FE_CALIDADCARTERA_DIARIO" ->
         <<"F", "E", "_", "C", "A", "L", "I", "D", "A", "D", "C", "A", "R", "T",
           "E", "R", "A", "_", "D", "I", "A", "R", "I", "O">>

\* `sub in s` on strings given as tuples of characters.
RECURSIVE Occurs(_, _)
Occurs(sub, s) ==
  IF Len(s) < Len(sub) THEN FALSE
  ELSE SubSeq(s, 1, Len(sub)) = sub \/ Occurs(sub, Tail(s))

\* A partitioning that puts a row in a group only when its tag field is the
\* group's key.
partitions_exact(all_tasks) ==
  [tag \in DOMAIN MONITORED_PROCESSES |->
     SelectSeq(all_tasks, LAMBDA task : Get(task, "Tags", <<>>) = TagChars(tag))]

\* analyst_llm_node, lines 189-196: the rows of each monitored tag, in the
\* order of the input. A row's Tags is the text of its tag cell (str() of a
\* string is the string, a missing cell is the empty string).
partitions(all_tasks) ==
  [tag \in DOMAIN MONITORED_PROCESSES |->
     SelectSeq(all_tasks, LAMBDA task : Occurs(TagChars(tag), Get(task, "Tags", <<>>)))]

\* str.strip() and str.lower() on a name given as a tuple of characters.
RECURSIVE LStrip(_)
LStrip(s) == IF s # <<>> /\ Head(s) = " " THEN LStrip(Tail(s)) ELSE s

RECURSIVE RStrip(_)
RStrip(s) ==
  IF s # <<>> /\ s[Len(s)] = " " THEN RStrip(SubSeq(s, 1, Len(s) - 1)) ELSE s

Strip(s) == LStrip(RStrip(s))

LowerChar(ch) ==
  CASE ch = "H" -> "h" [] ch = "Q" -> "q" [] ch = "K" -> "k" [] ch = "X" -> "x"
    [] ch = "T" -> "t" [] OTHER -> ch

LowerName(s) == [i \in 1..Len(s) |-> LowerChar(s[i])]

StartsWith(s, prefix) ==
  Len(s) >= Len(prefix) /\ SubSeq(s, 1, Len(prefix)) = prefix

\* nodes/nprinting/analyst.py filter_tasks_by_prefix
filter_tasks_by_prefix(tasks, prefix) ==
  LET prefix_lower == LowerName(Strip(Chars(prefix))) IN
  SelectSeq(tasks, LAMBDA t :
    StartsWith(LowerName(Strip(Get(t, "Task name", <<>>))), prefix_lower))

\* A group task that hands an empty partition to the group analysis.
qmc_analyze_one_unguarded(tag, p_tasks, replies, fails) ==
  IF fails THEN [raised |-> TRUE, calls |-> 0]
  ELSE LET result == analyze_group(p_tasks, replies) IN
       [raised |-> FALSE, key |-> tag, calls |-> result.calls, report |-> result.report]

\* _analyze_one of analyst_llm_node: the (tag, report) pair of one group, or
\* the exception the task ended with (fails: something in the task raised
\* outside analyze_group's own try block).
qmc_analyze_one(tag, p_tasks, replies, fails) ==
  IF fails THEN [raised |-> TRUE, calls |-> 0]
  ELSE IF p_tasks = <<>>
  THEN [raised |-> FALSE, key |-> tag, calls |-> 0,
        report |-> [status |-> "Pending",
                    summary |-> <<"No execution records found for today.">>]]
  ELSE LET result == analyze_group(p_tasks, replies) IN
       [raised |-> FALSE, key |-> tag, calls |-> result.calls, report |-> result.report]

\* _analyze_one of nprinting_analyst_node
nprinting_analyze_one(prefix, alias, all_tasks, replies, fails) ==
  LET prefix_tasks == filter_tasks_by_prefix(all_tasks, prefix) IN
  IF fails THEN [raised |-> TRUE, calls |-> 0]
  ELSE IF prefix_tasks = <<>>
  THEN [raised |-> FALSE, key |-> alias, calls |-> 0,
        report |-> [status |-> "Pending",
                    summary |-> <<"Tasks have not been executed yet.">>,
                    prefix |-> prefix, task_count |-> 0]]
  ELSE LET result == analyze_nprinting_group(prefix_tasks, replies) IN
       [raised |-> FALSE, key |-> alias, calls |-> result.calls,
        report |-> [k \in DOMAIN result.report \cup {"prefix", "task_count"} |->
                      CASE k = "prefix" -> prefix
                        [] k = "task_count" -> Len(prefix_tasks)
                        [] OTHER -> result.report[k]]]

\* A gather that lets the first exception of a task propagate to the caller.
gather_propagating(results) ==
  IF \E g \in DOMAIN results : results[g].raised
  THEN [raised |-> TRUE]
  ELSE [raised |-> FALSE, results |-> results]

\* asyncio.gather(*tasks, return_exceptions=True): every task runs to its end,
\* exceptions are returned as results.
gather(results) == [raised |-> FALSE, results |-> results]

\* Lines 216-222 / 238-244: the results that are not exceptions, keyed.
final_report(results) ==
  LET kept == {g \in DOMAIN results : ~results[g].raised} IN
  [k \in {results[g].key : g \in kept} |->
     results[CHOOSE g \in kept : results[g].key = k].report]

\* --------------------------------------------------------------- combiner
\* str.lower() on the status vocabulary
Lower(s) ==
  CASE s = "Failed" -> "failed" [] s = "Error" -> "error" [] s = "Running" -> "running"
    [] s = "Pending" -> "pending" [] s = "Success" -> "success"
    [] s = "No Data" -> "no data" [] s = "No Run" -> "no run" [] OTHER -> s

\* The lower-cased statuses of a report map that carry a signal.
SignalStatuses(reports) ==
  {Lower(Get(reports[g], "status", "")) : g \in DOMAIN reports} \ {"", "no data", "no run"}

\* A verdict taken from the first source alone whenever it has a status
\* with a signal.
determine_overall_status_qmc_first(qmc_reports, nprinting_reports) ==
  LET all_statuses == IF SignalStatuses(qmc_reports) # {}
                      THEN SignalStatuses(qmc_reports)
                      ELSE SignalStatuses(nprinting_reports) IN
  IF all_statuses = {} THEN "No Data"
  ELSE IF "failed" \in all_statuses THEN "Failed"
  ELSE IF "error" \in all_statuses THEN "Failed"
  ELSE IF "running" \in all_statuses THEN "Running"
  ELSE IF "pending" \in all_statuses THEN "Pending"
  ELSE IF all_statuses = {"success"} THEN "Success"
  ELSE "Pending"

\* A verdict that is Failed only when both sources report a failure.
determine_overall_status_both(qmc_reports, nprinting_reports) ==
  LET all_statuses == SignalStatuses(qmc_reports) \cup SignalStatuses(nprinting_reports) IN
  IF all_statuses = {} THEN "No Data"
  ELSE IF "failed" \in SignalStatuses(qmc_reports) \cap SignalStatuses(nprinting_reports)
  THEN "Failed"
  ELSE IF "error" \in all_statuses THEN "Failed"
  ELSE IF "running" \in all_statuses THEN "Running"
  ELSE IF "pending" \in all_statuses THEN "Pending"
  ELSE IF all_statuses = {"success"} THEN "Success"
  ELSE "Pending"

determine_overall_status(qmc_reports, nprinting_reports) ==
  LET all_statuses == SignalStatuses(qmc_reports) \cup SignalStatuses(nprinting_reports) IN
  IF all_statuses = {} THEN "No Data"
  ELSE IF "failed" \in all_statuses THEN "Failed"
  ELSE IF "error" \in all_statuses THEN "Failed"
  ELSE IF "running" \in all_statuses THEN "Running"
  ELSE IF "pending" \in all_statuses THEN "Pending"
  ELSE IF all_statuses = {"success"} THEN "Success"
  ELSE "Pending"

CountKeys == {"Success", "Running", "Failed", "Pending", "No Run", "Error"}

count_by_status(reports) ==
  LET Bucket(g) == LET s == Get(reports[g], "status", "No Run") IN
                   IF s \in CountKeys THEN s ELSE "No Run"
  IN [k \in CountKeys |-> Cardinality({g \in DOMAIN reports : Bucket(g) = k})]

\* The iteration order of the group names of a report map (a dict keeps
\* insertion order, and the analysts insert in configuration order).
GroupOrder == <<"g1", "g2", "g3", "g4">>

\* [p for p, r in reports.items() if r.get("status", "").lower() in ["failed", "error"]]
failed_names(reports) ==
  SelectSeq(GroupOrder, LAMBDA p :
    p \in DOMAIN reports /\ Lower(Get(reports[p], "status", "")) \in {"failed", "error"})

\* failed_list[:4]: one name more than the template shows.
Truncate4(list) == SubSeq(list, 1, IF Len(list) < 4 THEN Len(list) ELSE 4)

\* failed_list[:3]
Truncate(list) == SubSeq(list, 1, IF Len(list) < 3 THEN Len(list) ELSE 3)

\* _generate_summary_fallback: the templated sentence, as the template chosen
\* and the values put into it.
generate_summary_fallback(overall_status, qmc, nprinting) ==
  LET total_qmc == Cardinality(DOMAIN qmc)
      total_nprinting == Cardinality(DOMAIN nprinting)
      failed_list == failed_names(qmc) \o failed_names(nprinting)
  IN CASE overall_status = "Success" ->
            [kind |-> "fallback", template |-> "All {n} processes completed successfully.",
             n |-> total_qmc + total_nprinting]
       [] overall_status = "Failed" ->
            [kind |-> "fallback", template |-> "CRITICAL: {n} process(es) failed: {names}{...}",
             n |-> Len(failed_list), names |-> Truncate(failed_list),
             ellipsis |-> Len(failed_list) > 3]
       [] overall_status = "Running" ->
            [kind |-> "fallback", template |-> "Processes are still running.",
             qmc |-> total_qmc, nprinting |-> total_nprinting]
       [] OTHER ->
            [kind |-> "fallback", template |-> "Status: {status}.",
             status |-> overall_status, qmc |-> total_qmc, nprinting |-> total_nprinting]

\* generate_summary_llm: the collaborator's text, or the fallback when it raises.
generate_summary_llm(llm_ok, overall_status, qmc, nprinting) ==
  IF llm_ok THEN [kind |-> "llm"]
  ELSE generate_summary_fallback(overall_status, qmc, nprinting)

\* A combine stage without the branch for two empty report maps.
combined_analyst_node_unguarded(state, llm_ok) ==
  LET qmc_reports == OrElse(state.process_reports, EmptyMap)
      nprinting_reports == OrElse(state.nprinting_reports, EmptyMap)
      overall_status == determine_overall_status(qmc_reports, nprinting_reports)
  IN [combined_report |->
        Some([overall_status |-> overall_status,
              qmc |-> [total_processes |-> Cardinality(DOMAIN qmc_reports),
                       status_counts |-> count_by_status(qmc_reports),
                       processes |-> qmc_reports],
              nprinting |-> [total_processes |-> Cardinality(DOMAIN nprinting_reports),
                             status_counts |-> count_by_status(nprinting_reports),
                             processes |-> nprinting_reports],
              summary |-> generate_summary_llm(llm_ok, overall_status,
                                               qmc_reports, nprinting_reports)]),
      logs |-> <<Line("Combined: QMC + NPrinting")>>]

\* nodes/combined_analyst.py combined_analyst_node
combined_analyst_node(state, llm_ok) ==
  LET qmc_reports == OrElse(state.process_reports, EmptyMap)
      nprinting_reports == OrElse(state.nprinting_reports, EmptyMap)
      overall_status == determine_overall_status(qmc_reports, nprinting_reports)
  IN IF qmc_reports = EmptyMap /\ nprinting_reports = EmptyMap
     THEN [combined_report |->
             Some([overall_status |-> "Pending",
                   summary |-> [kind |-> "not executed"]]),
           logs |-> <<Line("Combined: No data from either source")>>]
     ELSE [combined_report |->
             Some([overall_status |-> overall_status,
                   qmc |-> [total_processes |-> Cardinality(DOMAIN qmc_reports),
                            status_counts |-> count_by_status(qmc_reports),
                            processes |-> qmc_reports],
                   nprinting |-> [total_processes |-> Cardinality(DOMAIN nprinting_reports),
                                  status_counts |-> count_by_status(nprinting_reports),
                                  processes |-> nprinting_reports],
                   summary |-> generate_summary_llm(llm_ok, overall_status,
                                                    qmc_reports, nprinting_reports)]),
           logs |-> <<Line("Combined: QMC + NPrinting")>>]

\* ------------------------------------------- deterministic row classifier
\* str.upper() on the status labels of the task table.
Upper(s) ==
  CASE s \in {"Failed", "failed"} -> "FAILED" [] s = "Error" -> "ERROR"
    [] s = "Aborted" -> "ABORTED" [] s = "Cancelled" -> "CANCELLED"
    [] s = "Skipped" -> "SKIPPED" [] s = "Never started" -> "NEVER STARTED"
    [] s = "Reset" -> "RESET" [] s = "Running" -> "RUNNING" [] s = "Started" -> "STARTED"
    [] s = "Queued" -> "QUEUED" [] s = "Success" -> "SUCCESS" [] OTHER -> s

\* legacy/analyst.py classify_status
classify_status(status) ==
  LET status_upper == IF status # "" THEN Upper(status) ELSE "" IN
  IF status_upper \in {"SUCCESS", "SUCCEEDED", "COMPLETED"} THEN "completadas"
  ELSE IF status_upper \in {"SKIPPED"} THEN "saltadas"
  ELSE IF status_upper \in {"RUNNING", "EXECUTING"} THEN "en_ejecucion"
  ELSE IF status_upper \in {"STARTED", "QUEUED", "WAITING", "PENDING"} THEN "pendientes"
  ELSE IF status_upper \in {"FAILED", "ERROR", "ABORTED", "CANCELLED"} THEN "fallidas"
  ELSE "otro"

\* legacy/analyst.py count_statuses: the ProcessStatusSummary of the rows.
count_statuses(tasks) ==
  LET n(category) ==
        Cardinality({i \in 1..Len(tasks) :
                       classify_status(Get(tasks[i], "Status", "")) = category})
  IN [total_tareas |-> Len(tasks), completadas |-> n("completadas"),
      saltadas |-> n("saltadas"), en_ejecucion |-> n("en_ejecucion"),
      pendientes |-> n("pendientes"), fallidas |-> n("fallidas")]

\* A verdict that looks at the running rows before the failed ones.
legacy_determine_overall_status_running_first(summary) ==
  LET tareas_activas == summary.total_tareas - summary.saltadas IN
  IF summary.en_ejecucion > 0 THEN "En proceso"
  ELSE IF summary.fallidas > 0 THEN "Fallido"
  ELSE IF tareas_activas = summary.completadas THEN "Completado"
  ELSE IF summary.completadas > 0 /\ summary.pendientes > 0 THEN "En proceso"
  ELSE IF summary.pendientes = tareas_activas THEN "Pendiente"
  ELSE "En proceso"

\* legacy/analyst.py determine_overall_status: Fallido (failed), Completado
\* (success), En proceso (running) or Pendiente (pending).
legacy_determine_overall_status(summary) ==
  LET tareas_activas == summary.total_tareas - summary.saltadas IN
  IF summary.fallidas > 0 THEN "Fallido"
  ELSE IF tareas_activas = summary.completadas THEN "Completado"
  ELSE IF summary.en_ejecucion > 0 \/ (summary.completadas > 0 /\ summary.pendientes > 0)
  THEN "En proceso"
  ELSE IF summary.pendientes = tareas_activas THEN "Pendiente"
  ELSE "En proceso"

\* legacy/analyst.py analyze_process_status: the verdict, the counts and the
\* rows (rows without an execution time keep their order when sorted).
analyze_process_status(tasks) ==
  [estado |-> legacy_determine_overall_status(count_statuses(tasks)),
   resumen |-> count_statuses(tasks),
   tareas |-> tasks]

\* --------------------------------------------------- reporter, sync, error
report_script(ok) ==
  IF ok THEN [success |-> TRUE, output_path |-> "unified_report.png"]
  ELSE [success |-> FALSE, error |-> <<"render error">>]

\* nodes/reporter.py reporter_node; called is FALSE when it returns before
\* invoking the renderer.
reporter_called(state) ==
  ~(OrElse(state.process_reports, EmptyMap) = EmptyMap
    /\ OrElse(state.nprinting_reports, EmptyMap) = EmptyMap)

reporter_node(state, proc, ok) ==
  IF ~reporter_called(state)
  THEN [current_step |-> "done", logs |-> <<Line("No reports available to visualize.")>>]
  ELSE LET result == run_playwright_script(proc, report_script(ok)) IN
       IF Get(result, "success", FALSE)
       THEN [current_step |-> "done",
             report_image_path |-> Some("unified_report.png"),
             logs |-> <<Line("Unified report generated")>>]
       ELSE [current_step |-> "error",
             error_message |->
               Some(<<"Report generation failed: ">> \o Get(result, "error", <<"Unknown Error">>)),
             logs |-> <<Line("Report Gen Error")>>]

\* graph.py sync_node
sync_node(state) == [logs |-> <<Line("Sync")>>]

\* graph.py error_agent
error_agent(state) ==
  [current_step |-> "error",
   logs |-> << <<"WORKFLOW FAILED: ">>
               \o (IF state.error_message = None THEN <<"None">>
                   ELSE state.error_message[1]) >>]

\* ---------------------------------------------------------------- routing
\* `not state.get(cookies)`: None and the empty dict are both falsy.
NoCookies(c) == c = None \/ c[1] = {}

route_after_qmc_login(state) ==
  IF NoCookies(state.session_cookies)
  THEN IF state.retry_count >= state.max_retries THEN "error" ELSE "qmc_login"
  ELSE "qmc_extractor"

route_after_qmc_extractor(state) ==
  IF state.current_step = "error" THEN "error" ELSE "qmc_analyst"

route_after_nprinting_login(state) ==
  IF NoCookies(state.nprinting_cookies)
  THEN IF state.nprinting_retry_count >= state.max_retries THEN "error" ELSE "nprinting_login"
  ELSE "nprinting_extractor"

route_after_nprinting_extractor(state) ==
  IF state.current_step = "error" THEN "error" ELSE "nprinting_analyst"

\* A classify stage that hands a report map without a usable group (empty,
\* or every group Error) to the error stage.
edges_after_analyst_checked(state) ==
  LET Unusable(reports) ==
        /\ reports # None
        /\ \A g \in DOMAIN reports[1] : reports[1][g].status = "Error"
  IN IF Unusable(state.process_reports) \/ Unusable(state.nprinting_reports)
     THEN {"error"} ELSE {"sync"}

\* build_unified_graph: the unconditional edges (END is the empty set).
edges_after_analyst(state) == {"sync"}

\* A sync that lets the combine stage run once: it goes on only while no
\* combined report has been produced.
edges_after_sync_once(state) ==
  IF state.combined_report = None THEN {"combined_analyst"} ELSE {}

\* A sync that goes on only when both report maps have been produced.
edges_after_sync_both(state) ==
  IF state.process_reports # None /\ state.nprinting_reports # None
  THEN {"combined_analyst"} ELSE {}

edges_after_sync(state) == {"combined_analyst"}

\* A combine stage that is followed by the report stage only in a run without
\* a recorded error.
edges_after_combined_analyst_clean(state) ==
  IF state.qmc_error = None /\ state.nprinting_error = None THEN {"reporter"} ELSE {}

edges_after_combined_analyst(state) == {"reporter"}

\* A report stage that hands its failure to the error stage.
edges_after_reporter_error(state) ==
  IF state.current_step = "error" THEN {"error"} ELSE {}

edges_after_reporter(state) == {}

edges_after_error(state) == {}

\* ------------------------------------------------------ graph execution
Nodes == {"qmc_login", "qmc_extractor", "qmc_analyst",
          "nprinting_login", "nprinting_extractor", "nprinting_analyst",
          "sync", "combined_analyst", "reporter", "error"}

\* Updates of one step are applied in the order of the stage names.
NodeOrder == <<"combined_analyst", "error", "nprinting_analyst", "nprinting_extractor",
               "nprinting_login", "qmc_analyst", "qmc_extractor", "qmc_login",
               "reporter", "sync">>

\* The two chains: A is QMC, B is NPrinting.
Chains == {"A", "B"}

\* Child-process outcomes drawn for the extraction and rendering stages.
StageProcOutcomes == {"ran"}

\* Whether the summary collaborator answers, as drawn for the combine stage.
SummaryOutcomes == {TRUE}

VARIABLES
  st,        \* the workflow state (QMCState)
  todo,      \* stages triggered for the current step and not yet executed
  writes,    \* stage -> partial update returned in the current step
  routed,    \* stage -> stages it triggered for the next step
  step,      \* number of the current step
  status,    \* "running", "done", "crashed" (updates that cannot be merged)
  runs,      \* stage -> number of executions so far
  pos,       \* chain -> stage the chain was routed to last
  move,      \* chain -> kind of the last routing decision of the chain
  streak,    \* chain -> number of consecutive failed login executions
  fatal,     \* chain -> number of login executions when a login could not start, 0 if never
  extract,   \* chain -> outcome of the chain's extraction
  uncounted, \* chain -> failed logins that did not raise the retry counter
  arrived,   \* chain -> step in which its classify stage executed, 0 if it has not
  job,       \* the arguments of a stage function applied on its own, None in a run
  res        \* what that application returned, None before it

graph_vars == <<st, todo, writes, routed, step, status, runs, pos, move, streak, fatal,
                extract, uncounted, arrived>>

vars == <<graph_vars, job, res>>

NoWrites == [n \in {} |-> None]

\* The state a routing function reads: the step's state with the stage's
\* own update applied.
View(u) ==
  [k \in StateKeys |->
     IF k \in DOMAIN u
     THEN IF k \in AppendKeys THEN st[k] \o u[k] ELSE u[k]
     ELSE st[k]]

Writers(k) == {n \in DOMAIN writes : k \in DOMAIN writes[n]}

\* Two updates of one step to a replace-semantics field cannot be merged.
Conflict == \E k \in StateKeys \ AppendKeys : Cardinality(Writers(k)) > 1

RECURSIVE AppendAll(_, _)
AppendAll(k, i) ==
  IF i > Len(NodeOrder) THEN <<>>
  ELSE (IF NodeOrder[i] \in Writers(k) THEN writes[NodeOrder[i]][k] ELSE <<>>)
       \o AppendAll(k, i + 1)

\* A merge that treats logs and screenshots like every other field: the
\* entries written in the step replace what was there.
Merged_replacing ==
  [k \in StateKeys |->
     IF Writers(k) = {} THEN st[k]
     ELSE IF k \in AppendKeys THEN AppendAll(k, 1)
     ELSE writes[CHOOSE n \in Writers(k) : TRUE][k]]

\* The state after the step: the reducer of each field applied to the
\* updates of the step.
Merged ==
  [k \in StateKeys |->
     IF k \in AppendKeys THEN st[k] \o AppendAll(k, 1)
     ELSE IF Writers(k) = {} THEN st[k]
     ELSE writes[CHOOSE n \in Writers(k) : TRUE][k]]

\* The stages triggered for the next step.
Triggered == UNION {routed[n] : n \in DOMAIN routed}

GraphInit ==
  /\ st = create_initial_state
  /\ todo = {"qmc_login", "nprinting_login"}
  /\ writes = NoWrites
  /\ routed = NoWrites
  /\ step = 1
  /\ status = "running"
  /\ runs = [n \in Nodes |-> 0]
  /\ pos = [c \in Chains |-> "login"]
  /\ move = [c \in Chains |-> "init"]
  /\ streak = [c \in Chains |-> 0]
  /\ fatal = [c \in Chains |-> 0]
  /\ extract = [c \in Chains |-> "none"]
  /\ uncounted = [c \in Chains |-> 0]
  /\ arrived = [c \in Chains |-> 0]

Init ==
  /\ GraphInit
  /\ job = None
  /\ res = None

\* One stage of the current step executes: it returns update u and triggers
\* the stages in routes.
Exec(node, u, routes) ==
  /\ status = "running"
  /\ node \in todo
  /\ todo' = todo \ {node}
  /\ writes' = (node :> u) @@ writes
  /\ routed' = (node :> routes) @@ routed
  /\ runs' = [runs EXCEPT ![node] = @ + 1]
  /\ UNCHANGED <<st, step, status, job, res>>

PosOf(route) ==
  CASE route \in {"qmc_login", "nprinting_login"} -> "login"
    [] route \in {"qmc_extractor", "nprinting_extractor"} -> "extract"
    [] route \in {"qmc_analyst", "nprinting_analyst"} -> "classify"
    [] route = "sync" -> "sync"
    [] OTHER -> "error"

MoveOf(node, route) ==
  IF route = node THEN "retry" ELSE IF route = "error" THEN "error" ELSE "advance"

\* A login whose collaborator could not start at all.
IsFatal(proc, outcome) == proc = "not_found" \/ (proc = "ran" /\ outcome = "init_fail")

Login(c, node, u, route, counted, proc, outcome) ==
  /\ route = node /\ ~counted => uncounted["A"] + uncounted["B"] < MaxUncounted
  /\ Exec(node, u, {route})
  /\ pos' = [pos EXCEPT ![c] = PosOf(route)]
  /\ move' = [move EXCEPT ![c] = MoveOf(node, route)]
  /\ streak' = [streak EXCEPT ![c] = IF proc = "ran" /\ outcome = "ok" THEN 0 ELSE @ + 1]
  /\ fatal' = [fatal EXCEPT ![c] = IF @ = 0 /\ IsFatal(proc, outcome)
                                   THEN runs[node] + 1 ELSE @]
  /\ uncounted' = [uncounted EXCEPT ![c] = IF route = node /\ ~counted THEN @ + 1 ELSE @]
  /\ UNCHANGED <<extract, arrived>>

QmcLogin ==
  \E proc \in ProcOutcomes, outcome \in LoginOutcomes, cookies \in CookieJars :
    \E u \in {login_node_sync(st, proc, outcome, cookies)} :
      \E v \in {View(u)} :
        Login("A", "qmc_login", u, route_after_qmc_login(v),
              v.retry_count > st.retry_count, proc, outcome)

NPrintingLogin ==
  \E proc \in ProcOutcomes, outcome \in LoginOutcomes, cookies \in CookieJars :
    \E u \in {nprinting_login_node(st, proc, outcome, cookies)} :
      \E v \in {View(u)} :
        Login("B", "nprinting_login", u, route_after_nprinting_login(v),
              v.nprinting_retry_count > st.nprinting_retry_count, proc, outcome)

Extract(c, node, u, route, ok) ==
  /\ Exec(node, u, {route})
  /\ pos' = [pos EXCEPT ![c] = PosOf(route)]
  /\ move' = [move EXCEPT ![c] = MoveOf(node, route)]
  /\ extract' = [extract EXCEPT ![c] = IF ok THEN "ok" ELSE "fail"]
  /\ UNCHANGED <<streak, fatal, uncounted, arrived>>

QmcExtractor ==
  \E proc \in StageProcOutcomes, ok \in BOOLEAN, rows \in RowLists :
    \E u \in {extractor_node(st, proc, ok, rows)} :
      \E v \in {View(u)} :
        Extract("A", "qmc_extractor", u, route_after_qmc_extractor(v), proc = "ran" /\ ok)

NPrintingExtractor ==
  \E proc \in StageProcOutcomes, ok \in BOOLEAN, rows \in RowLists :
    \E u \in {nprinting_extractor_node(st, proc, ok, rows)} :
      \E v \in {View(u)} :
        Extract("B", "nprinting_extractor", u, route_after_nprinting_extractor(v),
                proc = "ran" /\ ok)

Analyst(c, node, u) ==
  /\ Exec(node, u, edges_after_analyst(View(u)))
  /\ pos' = [pos EXCEPT ![c] = "sync"]
  /\ move' = [move EXCEPT ![c] = "advance"]
  /\ arrived' = [arrived EXCEPT ![c] = step]
  /\ UNCHANGED <<streak, fatal, extract, uncounted>>

QmcAnalyst ==
  \E analysis \in AnalysisMaps :
    \E u \in {analyst_llm_node(st, analysis)} : Analyst("A", "qmc_analyst", u)

NPrintingAnalyst ==
  \E analysis \in AnalysisMaps :
    \E u \in {nprinting_analyst_node(st, analysis)} : Analyst("B", "nprinting_analyst", u)

Sync ==
  /\ Exec("sync", sync_node(st), edges_after_sync(View(sync_node(st))))
  /\ UNCHANGED <<pos, move, streak, fatal, extract, uncounted, arrived>>

CombinedAnalyst ==
  \E llm_ok \in SummaryOutcomes :
    \E u \in {combined_analyst_node(st, llm_ok)} :
    /\ Exec("combined_analyst", u, edges_after_combined_analyst(View(u)))
    /\ UNCHANGED <<pos, move, streak, fatal, extract, uncounted, arrived>>

Reporter ==
  \E proc \in StageProcOutcomes, ok \in BOOLEAN :
    \E u \in {reporter_node(st, proc, ok)} :
    /\ Exec("reporter", u, edges_after_reporter(View(u)))
    /\ UNCHANGED <<pos, move, streak, fatal, extract, uncounted, arrived>>

Error ==
  /\ Exec("error", error_agent(st), edges_after_error(View(error_agent(st))))
  /\ UNCHANGED <<pos, move, streak, fatal, extract, uncounted, arrived>>

\* All stages of the step have returned: their updates are merged and the
\* next step starts, or the run ends.
EndStep ==
  /\ status = "running"
  /\ todo = {}
  /\ writes' = NoWrites
  /\ routed' = NoWrites
  /\ IF Conflict
     THEN /\ status' = "crashed"
          /\ UNCHANGED <<st, todo, step>>
     ELSE /\ st' = Merged
          /\ IF Triggered = {}
             THEN status' = "done" /\ UNCHANGED <<todo, step>>
             ELSE status' = "running" /\ todo' = Triggered /\ step' = step + 1
  /\ UNCHANGED <<runs, pos, move, streak, fatal, extract, uncounted, arrived, job, res>>

Next ==
  \/ QmcLogin
  \/ NPrintingLogin
  \/ QmcExtractor
  \/ NPrintingExtractor
  \/ QmcAnalyst
  \/ NPrintingAnalyst
  \/ Sync
  \/ CombinedAnalyst
  \/ Reporter
  \/ Error
  \/ EndStep

Spec == Init /\ [][Next]_vars

\* ------------------------------------------- stage functions on their own
\* The classify and combine stages applied to arguments of their own: job is
\* drawn at the start, one action applies the stage function to it.
Seqs(S, n) == UNION {[1..k -> S] : k \in 0..n}

\* QMC task rows. Their tag cells: one monitored tag, two of them, a tag that
\* is the beginning of a monitored one ("FE_HITOS"), a monitored tag inside a
\* longer word ("XFE_PASIVOS_OLD") and one in lower case.
QmcTaskRows ==
  {[Name |-> "t1", Tags |-> TagChars("FE_HITOS_DIARIO"), Enabled |-> "Yes",
    Status |-> "Success"],
   [Name |-> "t2",
    Tags |-> TagChars("FE_HITOS_DIARIO") \o <<",", " ">> \o TagChars("FE_PASIVOS"),
    Enabled |-> "Yes", Status |-> "Failed"],
   [Name |-> "t3", Tags |-> TagChars("FE_PASIVOS"), Enabled |-> "No", Status |-> "Success"],
   [Name |-> "t4", Tags |-> SubSeq(TagChars("FE_HITOS_DIARIO"), 1, 8), Enabled |-> "Yes",
    Status |-> "Success"],
   [Name |-> "t7", Tags |-> <<"X">> \o TagChars("FE_PASIVOS") \o <<"_", "O", "L", "D">>,
    Enabled |-> "Yes", Status |-> "Success"],
   [Name |-> "t8", Tags |-> <<"f", "e", "_", "p", "a", "s", "i", "v", "o", "s">>,
    Enabled |-> "Yes", Status |-> "Success"]}

\* NPrinting task rows.
NPrintingTaskRows ==
  {("Task name" :> <<"h", ".", "T">>) @@ ("Status" :> "Completed"),
   ("Task name" :> <<"H", ".", "T">>) @@ ("Status" :> "Failed"),
   ("Task name" :> <<"x", ".", "T">>) @@ ("Status" :> "Completed"),
   ("Task name" :> <<"z", "z">>) @@ ("Status" :> "Completed")}

\* Rows of one group: the QMC rows, a row without the Enabled column and a
\* disabled row that failed.
GroupTaskRows ==
  QmcTaskRows
  \cup {[Name |-> "t5", Tags |-> TagChars("FE_PASIVOS"), Status |-> "Running"],
        [Name |-> "t6", Tags |-> TagChars("FE_PASIVOS"), Enabled |-> "No",
         Status |-> "Failed"]}

\* Status labels of the task table, as the deterministic classifier gets them.
StatusLabels ==
  {"Failed", "failed", "Error", "Aborted", "Cancelled", "Skipped", "Never started",
   "Reset", "Running", "Started", "Queued", "Success"}

\* Rows for the deterministic classifier.
LabelledRows == {[Name |-> "t", Status |-> x] : x \in StatusLabels}

\* What the scripts print when they run to their end.
ScriptOutputs ==
  {qmc_login_script([retry_count |-> 0, max_retries |-> DefaultMaxRetries], o, c) :
     o \in LoginOutcomes, c \in CookieJars}
  \cup {nprinting_login_script([retry_count |-> 2, max_retries |-> DefaultMaxRetries], o, c) :
          o \in LoginOutcomes, c \in CookieJars}
  \cup {qmc_extract_script(ok, rows) : ok \in BOOLEAN, rows \in RowLists}
  \cup {nprinting_extract_script(ok, rows) : ok \in BOOLEAN, rows \in RowLists}
  \cup {report_script(ok) : ok \in BOOLEAN}

\* What the classification collaborator can do on one attempt.
Good == [kind |-> "dict", value |-> [status |-> "Success", summary |-> <<"ok">>]]
RawList ==
  [kind |-> "list",
   items |-> <<[Name |-> "t1", Status |-> "Success"], [Name |-> "t2", Status |-> "Failed"]>>]
ListWithAnalysis ==
  [kind |-> "list",
   items |-> <<[Name |-> "t2", Status |-> "Failed"],
               [status |-> "Failed", summary |-> <<"1 failed">>, failed_tasks |-> <<"t2">>]>>]
BadStatus == [kind |-> "dict", value |-> [status |-> "Mixed", summary |-> <<"x">>]]
NoSummary == [kind |-> "dict", value |-> [status |-> "Failed"]]
Scalar == [kind |-> "scalar"]
BadJson == [kind |-> "bad_json"]
Raise == [kind |-> "raise"]

\* Collaborator behaviours that fail or are invalid on every attempt.
FailingReplies == {<<RawList, RawList, RawList>>, <<Raise, NoSummary, BadStatus>>}

\* Collaborator behaviours over the attempts of one group.
ReplySeqs ==
  FailingReplies
  \cup {<<Good, Good, Good>>, <<BadJson, Scalar, ListWithAnalysis>>,
        <<NoSummary, BadStatus, Good>>}

\* Collaborator behaviours per group; the groups no row belongs to are not asked.
Llms(groups, asked) ==
  {f \in [groups -> ReplySeqs] : \A g \in groups \ asked : f[g] = <<Good, Good, Good>>}

\* The group tasks that end with an exception: none, or one of them.
FailingTasks(groups) == {{}} \cup {{g} : g \in groups}

\* Group statuses of a report map: the GroupReport vocabulary and one outside it.
ReportStatuses ==
  {"Success", "Running", "Failed", "Pending", "No Data", "No Run", "Error", "Mixed"}

\* The report maps of k groups.
ReportMaps(k) ==
  [{GroupOrder[i] : i \in 1..k} ->
     {[status |-> x, summary |-> <<"s">>] : x \in ReportStatuses}]

\* A report field of the state with k groups; with none it is absent or empty.
ReportFields(k) ==
  (IF k = 0 THEN {None} ELSE {}) \cup {Some(m) : m \in ReportMaps(k)}

\* What the classify stage of a source does with its tasks' results: the
\* update it returns (returned is FALSE when it raises instead), the partition
\* map it built (None when it returned before building one) and the number of
\* collaborator invocations of each group.
analyst_run(op, all_tasks, parts, results) ==
  LET g == gather(results)
      update(analysis) ==
        IF op = "analyst_llm_node"
        THEN analyst_llm_node([structured_data |-> Some(all_tasks)], analysis)
        ELSE nprinting_analyst_node([nprinting_data |-> Some(all_tasks)], analysis)
  IN IF all_tasks = <<>>
     THEN [returned |-> TRUE, update |-> update(EmptyMap), partitions |-> None,
           calls |-> [k \in DOMAIN results |-> 0]]
     ELSE IF g.raised
     THEN [returned |-> FALSE, update |-> NoWrites, partitions |-> Some(parts),
           calls |-> [k \in DOMAIN results |-> results[k].calls]]
     ELSE [returned |-> TRUE, update |-> update(final_report(g.results)),
           partitions |-> Some(parts),
           calls |-> [k \in DOMAIN results |-> results[k].calls]]

\* analyst_llm_node applied to the rows of job j, the collaborator behaving as
\* j.llm and the tasks of the groups in j.fails ending with an exception.
analyst_llm_run(j) ==
  LET parts == partitions(j.all_tasks)
      results == [tag \in DOMAIN MONITORED_PROCESSES |->
                    qmc_analyze_one(tag, parts[tag], j.llm[tag], tag \in j.fails)]
  IN analyst_run(j.op, j.all_tasks, parts, results)

\* nprinting_analyst_node applied to the rows of job j.
nprinting_analyst_run(j) ==
  LET parts == [prefix \in DOMAIN NPRINTING_MONITORED |->
                  filter_tasks_by_prefix(j.all_tasks, prefix)]
      results == [prefix \in DOMAIN NPRINTING_MONITORED |->
                    nprinting_analyze_one(prefix, NPRINTING_MONITORED[prefix], j.all_tasks,
                                          j.llm[prefix], prefix \in j.fails)]
  IN analyst_run(j.op, j.all_tasks, parts, results)

\* The arguments drawn: rows, collaborator behaviour and failing tasks for a
\* classify stage, two report fields for the combine stage.
FnInit ==
  /\ GraphInit
  /\ res = None
  /\ \/ \E r \in Seqs(QmcTaskRows, MaxRows),
           f \in Llms(DOMAIN MONITORED_PROCESSES, {"FE_HITOS_DIARIO", "FE_PASIVOS"}),
           x \in FailingTasks(DOMAIN MONITORED_PROCESSES) :
          job = Some([op |-> "analyst_llm_node", all_tasks |-> r, llm |-> f, fails |-> x])
     \/ \E r \in Seqs(NPrintingTaskRows, MaxRows),
           f \in Llms(DOMAIN NPRINTING_MONITORED, {"h.", "x."}),
           x \in FailingTasks(DOMAIN NPRINTING_MONITORED) :
          job = Some([op |-> "nprinting_analyst_node", all_tasks |-> r, llm |-> f,
                      fails |-> x])
     \/ \E r \in Seqs(GroupTaskRows, MaxRows), f \in ReplySeqs :
          job = Some([op |-> "analyze_group", tasks |-> r, replies |-> f])
     \/ \E r \in Seqs(LabelledRows, MaxRows) :
          job = Some([op |-> "analyze_process_status", tasks |-> r])
     \/ \E p \in ProcOutcomes, o \in ScriptOutputs :
          job = Some([op |-> "run_playwright_script", proc |-> p, output |-> o])
     \/ \E ka \in 0..MaxGroups, kb \in 0..MaxGroups :
          /\ ka + kb <= MaxCombined
          /\ \E a \in ReportFields(ka), b \in ReportFields(kb) :
               job = Some([op |-> "combined_analyst_node", qmc |-> a, nprinting |-> b])

AnalyzeQmc ==
  /\ job[1].op = "analyst_llm_node" /\ res = None
  /\ res' = Some(analyst_llm_run(job[1]))
  /\ UNCHANGED <<graph_vars, job>>

AnalyzeNPrinting ==
  /\ job[1].op = "nprinting_analyst_node" /\ res = None
  /\ res' = Some(nprinting_analyst_run(job[1]))
  /\ UNCHANGED <<graph_vars, job>>

Combine ==
  /\ job[1].op = "combined_analyst_node" /\ res = None
  /\ \E llm_ok \in BOOLEAN :
       res' = Some([llm_ok |-> llm_ok,
                    update |-> combined_analyst_node(
                                 [process_reports |-> job[1].qmc,
                                  nprinting_reports |-> job[1].nprinting], llm_ok)])
  /\ UNCHANGED <<graph_vars, job>>

AnalyzeGroup ==
  /\ job[1].op = "analyze_group" /\ res = None
  /\ res' = Some(analyze_group(job[1].tasks, job[1].replies))
  /\ UNCHANGED <<graph_vars, job>>

AnalyzeProcessStatus ==
  /\ job[1].op = "analyze_process_status" /\ res = None
  /\ res' = Some(analyze_process_status(job[1].tasks))
  /\ UNCHANGED <<graph_vars, job>>

RunScript ==
  /\ job[1].op = "run_playwright_script" /\ res = None
  /\ res' = Some(run_playwright_script(job[1].proc, job[1].output))
  /\ UNCHANGED <<graph_vars, job>>

FnNext ==
  \/ AnalyzeQmc
  \/ AnalyzeNPrinting
  \/ AnalyzeGroup
  \/ AnalyzeProcessStatus
  \/ RunScript
  \/ Combine

FnSpec == FnInit /\ [][FnNext]_vars

\* ================================================================ claims
LoginOf(c) == IF c = "A" THEN "qmc_login" ELSE "nprinting_login"
AnalystOf(c) == IF c = "A" THEN "qmc_analyst" ELSE "nprinting_analyst"
ErrorOf(c) == IF c = "A" THEN st.qmc_error ELSE st.nprinting_error
ReportsOf(c) == IF c = "A" THEN st.process_reports ELSE st.nprinting_reports
SideOf(c) == IF c = "A" THEN "qmc" ELSE "nprinting"
Other(c) == IF c = "A" THEN "B" ELSE "A"

\* The step's updates have been merged (or the run has not started a stage).
AtBoundary == status \in {"running", "done"} /\ writes = NoWrites

\* C1: with max_retries = 3, once A's login has failed three times in a row
\* chain A is routed to error and login is not attempted again, and a B whose
\* login, extract and classify each succeeded at once reaches sync and ends
\* the run with a non-empty reports_b.
C1_RetryExhaustion ==
  /\ streak["A"] >= 3 => streak["A"] = 3 /\ pos["A"] = "error"
  /\ (status = "done" /\ streak["A"] >= 3 /\ runs["nprinting_login"] = 1
      /\ extract["B"] = "ok" /\ pos["B"] = "sync")
     => runs["sync"] >= 1 /\ OrElse(st.nprinting_reports, EmptyMap) # EmptyMap

\* C2: sync does not execute until each chain has finished classify or has
\* been routed to error.
C2_SyncIsBarrier ==
  runs["sync"] > 0 => \A c \in Chains : pos[c] \in {"sync", "error"}

\* C3: login_x is executed at most max_retries times in a run, whatever the
\* kind of failure.
C3_LoginBounded ==
  \A c \in Chains : runs[LoginOf(c)] <= st.max_retries

\* C4: a chain whose extraction succeeded is routed to classify, whatever the
\* other chain did.
C4_SiblingIsolation ==
  \A c \in Chains : extract[c] = "ok" => pos[c] \in {"classify", "sync"}

\* Chain c has been routed to error and the other chain has finished classify.
OneSideFailed(c) == pos[c] = "error" /\ pos[Other(c)] = "sync"

\* The combined report was built with chain c's report map empty.
CombinedWithout(c) ==
  /\ st.combined_report # None
  /\ LET cr == st.combined_report[1] IN
     IF SideOf(c) \in DOMAIN cr
     THEN cr[SideOf(c)].processes = EmptyMap /\ cr[SideOf(c)].total_processes = 0
     ELSE cr.overall_status = "Pending"

\* C5: when one chain has been routed to error and the other has finished
\* classify, sync executes in the step after that classify and combine in the
\* step after sync, without waiting for the failed side, and the run ends
\* with a combined report built with the failed side's report map empty.
C5_SyncWithoutFailedSide ==
  \A c \in Chains :
    OneSideFailed(c) =>
      /\ step >= arrived[Other(c)] + 2 => runs["sync"] >= 1
      /\ step >= arrived[Other(c)] + 3 => runs["combined_analyst"] >= 1
      /\ status \in {"done", "crashed"}
         => runs["sync"] >= 1 /\ runs["combined_analyst"] >= 1 /\ CombinedWithout(c)

C5_Witness ==
  /\ status = "done" /\ OneSideFailed("A")
  /\ runs["combined_analyst"] >= 1 /\ CombinedWithout("A")
  /\ st.nprinting_reports # None /\ st.nprinting_reports[1] # EmptyMap

\* C6: a failed extraction routes the chain to error and its classify stage
\* is not executed.
C6_ExtractFailureRoutesToError ==
  \A c \in Chains : extract[c] = "fail" => pos[c] = "error" /\ runs[AnalystOf(c)] = 0

\* The report stage has returned a failure in the current step.
ReportFailed ==
  "reporter" \in DOMAIN writes /\ writes["reporter"].current_step = "error"

\* C7 as stated: a failed report stage routes to the error stage.
C7_ReportFailureRoutesToError ==
  ReportFailed => "error" \in routed["reporter"]

\* C7 as amended: a failed report stage records the failure itself (stage =
\* error, the error message, a log line) and triggers no further stage; the
\* error stage is not executed on its account.
C7_ReportFailureEndsRun ==
  ReportFailed =>
    /\ routed["reporter"] = {}
    /\ writes["reporter"].error_message
         = Some(<<"Report generation failed: ", "render error">>)
    /\ writes["reporter"].logs = <<Line("Report Gen Error")>>

C7_Witness == ReportFailed /\ todo = {} /\ "error" \notin Triggered

\* C8: once the error stage has executed, the run ends with stage = error.
C8_ErrorIsTerminal ==
  status = "done" /\ runs["error"] > 0 => st.current_step = "error"

\* C9: a login that could not start at all (script missing, browser runtime
\* not initialising) is not retried: the chain goes to error.
C9_FatalNotRetried ==
  \A c \in Chains : fatal[c] > 0 => pos[c] = "error" /\ runs[LoginOf(c)] = fatal[c]

\* C10: after every stage transition of a chain, either no error is recorded
\* and the chain advanced, or an error is recorded and the chain is retrying
\* the stage or is in error.
C10_ErrorXorProgress ==
  AtBoundary =>
    \A c \in Chains :
      move[c] # "init" =>
        \/ ErrorOf(c) = None /\ move[c] = "advance"
        \/ ErrorOf(c) # None /\ move[c] \in {"retry", "error"}

\* C24: every run starts from the initial state: stage init, both retry
\* counters 0, max_retries 3, both sessions, both row lists, both report maps
\* and the combined report unset, logs and screenshots empty. The stages of
\* the first step all read this state.
C24_RunStartsFromInitialState ==
  step = 1 =>
    /\ st.current_step = "init"
    /\ st.retry_count = 0 /\ st.nprinting_retry_count = 0
    /\ st.max_retries = 3
    /\ st.session_cookies = None /\ st.nprinting_cookies = None
    /\ st.structured_data = None /\ st.nprinting_data = None
    /\ st.process_reports = None /\ st.nprinting_reports = None
    /\ st.combined_report = None
    /\ st.logs = <<>> /\ st.screenshots = <<>>

C24_Witness ==
  /\ step = 1 /\ todo = {} /\ DOMAIN writes = {"qmc_login", "nprinting_login"}
  /\ "retry_count" \in DOMAIN writes["qmc_login"] /\ writes["qmc_login"].retry_count = 1
  /\ st.retry_count = 0 /\ st.current_step = "init" /\ st.logs = <<>>

\* The stages from classify to combine, and the stage each is followed by.
PathStages == {"qmc_analyst", "nprinting_analyst", "sync", "combined_analyst"}

SuccessorOf(n) ==
  CASE n \in {"qmc_analyst", "nprinting_analyst"} -> "sync"
    [] n = "sync" -> "combined_analyst"
    [] n = "combined_analyst" -> "reporter"

\* C29: whatever a classify stage produced (every group Error, or an empty
\* report map), it triggers sync and nothing else, never error; sync executes
\* in the next step, combine in the step after sync and report in the step
\* after combine, each triggered by its predecessor only; a run in which a
\* classify stage executed does not end before the report stage has executed.
C29_ClassifyAlwaysReachesReport ==
  /\ [](status \in {"done", "crashed"} =>
          \A n \in PathStages : runs[n] > 0 => runs[SuccessorOf(n)] > 0)
  /\ [][/\ \A n \in PathStages \cap DOMAIN routed' : routed'[n] = {SuccessorOf(n)}
        /\ (status = "running" /\ todo = {}) =>
             /\ \A n \in PathStages \cap DOMAIN writes :
                  status' = "running" /\ step' = step + 1 /\ SuccessorOf(n) \in todo'
             /\ status' = "running" =>
                  \A n \in PathStages :
                    SuccessorOf(n) \in todo' =>
                      \E m \in PathStages \cap DOMAIN writes : SuccessorOf(m) = SuccessorOf(n)
       ]_vars

C29_Witness ==
  /\ status = "done" /\ runs["error"] = 0
  /\ st.process_reports = Some([g \in {"g1"} |-> [status |-> "Error",
                                                  summary |-> "LLM Analysis failed"]])
  /\ st.nprinting_reports = Some(EmptyMap)
  /\ runs["sync"] = 1 /\ runs["combined_analyst"] = 1 /\ runs["reporter"] = 1
  /\ st.combined_report # None /\ st.combined_report[1].overall_status = "Failed"

\* C30: whenever the login collaborator of a source reports success, the
\* chain is routed to its extract stage and login is not re-entered, whatever
\* the credential bundle holds (a bundle with no cookies included).
C30_LoginSuccessAdvances ==
  [][\A c \in Chains :
       (runs'[LoginOf(c)] = runs[LoginOf(c)] + 1 /\ streak'[c] = 0) => pos'[c] = "extract"
    ]_vars

\* Sequence a is the beginning of sequence b.
IsPrefix(a, b) == Len(a) <= Len(b) /\ SubSeq(b, 1, Len(a)) = a

\* C31: logs and screenshots are append-only: in every step, also one that
\* merges the updates of stages that ran concurrently, the value before the
\* merge is a prefix of the value after it.
C31_LogsAppendOnly ==
  [][IsPrefix(st.logs, st'.logs) /\ IsPrefix(st.screenshots, st'.screenshots)]_vars

C31_Witness ==
  /\ step = 3 /\ writes = NoWrites
  /\ Len(st.logs) = 4
  /\ st.logs[1] = Line("NPRINTING_LOGIN: Error") /\ st.logs[2] = Line("LOGIN_SCRIPT: Error")
  /\ st.logs[3] = Line("NPRINTING_LOGIN: Error") /\ st.logs[4] = Line("LOGIN_SCRIPT: Error")
  /\ st.screenshots = <<"error_login.png", "error_login.png">>

\* The stages of a chain, and the state fields that belong to its source.
ChainStages(c) ==
  IF c = "A" THEN {"qmc_login", "qmc_extractor", "qmc_analyst"}
  ELSE {"nprinting_login", "nprinting_extractor", "nprinting_analyst"}

ExtractOf(c) == IF c = "A" THEN "qmc_extractor" ELSE "nprinting_extractor"

SourceFields(c) ==
  IF c = "A"
  THEN {"session_cookies", "browser_state_path", "retry_count", "raw_table_data",
        "structured_data", "process_reports", "qmc_error"}
  ELSE {"nprinting_cookies", "nprinting_state_path", "nprinting_retry_count",
        "nprinting_raw_data", "nprinting_data", "nprinting_reports", "nprinting_error"}

RowsField(c) == IF c = "A" THEN "structured_data" ELSE "nprinting_data"
ReportsField(c) == IF c = "A" THEN "process_reports" ELSE "nprinting_reports"

\* C34: no stage of a chain writes a field of the other source; the rows of
\* a source are written only by its extract stage and its reports only by
\* its classify stage; and once the classify stage of a source has executed
\* its rows do not change any more.
C34_SourceScopedWrites ==
  /\ [](\A c \in Chains : \A n \in DOMAIN writes :
          /\ n \in ChainStages(c) => DOMAIN writes[n] \cap SourceFields(Other(c)) = {}
          /\ RowsField(c) \in DOMAIN writes[n] => n = ExtractOf(c)
          /\ ReportsField(c) \in DOMAIN writes[n] => n = AnalystOf(c))
  /\ [][\A c \in Chains :
          runs[AnalystOf(c)] > 0 => st'[RowsField(c)] = st[RowsField(c)]
       ]_vars

C34_Witness ==
  /\ status = "done" /\ runs["qmc_analyst"] = 1 /\ runs["nprinting_analyst"] = 1
  /\ st.retry_count = 1 /\ st.nprinting_retry_count = 0
  /\ st.structured_data = Some(<<Row1>>) /\ st.qmc_error # None
  /\ st.nprinting_data = Some(<<>>) /\ st.nprinting_error # None
  /\ st.process_reports # None /\ st.process_reports # Some(EmptyMap)
  /\ st.nprinting_reports = Some(EmptyMap)

CounterField(c) == IF c = "A" THEN "retry_count" ELSE "nprinting_retry_count"

\* The updates of a step are merged into the state and a login of chain c
\* was among its stages.
LoginMerged(c) ==
  LoginOf(c) \in DOMAIN writes /\ writes' = NoWrites /\ status' # "crashed"

\* C35: the retry counter of a source never decreases: a step with a
\* successful login leaves it unchanged, a step with a failed login leaves
\* it strictly greater, whichever failure the script or its runner returned.
C35_RetryCounterMonotone ==
  [][\A c \in Chains :
       /\ st'[CounterField(c)] >= st[CounterField(c)]
       /\ LoginMerged(c) =>
            IF streak[c] = 0
            THEN st'[CounterField(c)] = st[CounterField(c)]
            ELSE st'[CounterField(c)] > st[CounterField(c)]
    ]_vars

\* C36: no two stages that execute in the same step write the same
\* replace-semantics field, so the merge of a step's updates does not depend
\* on the order in which they are applied.
C36_NoConcurrentWriteConflict ==
  \A k \in StateKeys \ AppendKeys : Cardinality(Writers(k)) <= 1

\* The run has ended and the classify stage of both chains has executed.
FinalBoth ==
  status = "done" /\ runs["qmc_analyst"] > 0 /\ runs["nprinting_analyst"] > 0

\* C37: in the final state of a run in which both classify stages executed,
\* the combined report is the one the combine stage computes from the two
\* report maps of that state: its per-source process maps are the final
\* process_reports and nprinting_reports and its overall_status is
\* determine_overall_status of both (with both maps empty the report has no
\* per-source part and its overall_status is Pending).
C37_FinalReportFromBoth ==
  FinalBoth =>
    /\ st.combined_report # None
    /\ LET r == st.combined_report[1]
           a == OrElse(st.process_reports, EmptyMap)
           b == OrElse(st.nprinting_reports, EmptyMap)
       IN IF a = EmptyMap /\ b = EmptyMap
          THEN r.overall_status = "Pending" /\ "qmc" \notin DOMAIN r
          ELSE /\ {"qmc", "nprinting"} \subseteq DOMAIN r
               /\ r.qmc.processes = a
               /\ r.nprinting.processes = b
               /\ r.overall_status = determine_overall_status(a, b)

C37_Witness ==
  /\ FinalBoth /\ runs["combined_analyst"] = 2
  /\ arrived["A"] = 3 /\ arrived["B"] = 5
  /\ st.process_reports = Some([g \in {"g1"} |-> [status |-> "Success", summary |-> "ok"]])
  /\ st.nprinting_reports = Some([g \in {"g1"} |-> [status |-> "Error",
                                                     summary |-> "LLM Analysis failed"]])
  /\ st.combined_report[1].nprinting.processes = st.nprinting_reports[1]
  /\ st.combined_report[1].overall_status = "Failed"

\* ------------------------------------------------ classify on its own
\* A classify stage has been applied to the job.
Classified ==
  job # None /\ res # None /\ job[1].op \in {"analyst_llm_node", "nprinting_analyst_node"}

\* The groups of the job's source, as the tasks are keyed, and the name each
\* has in the report map.
GroupKeys(j) ==
  IF j.op = "analyst_llm_node" THEN DOMAIN MONITORED_PROCESSES
  ELSE DOMAIN NPRINTING_MONITORED

ReportKey(j, g) == IF j.op = "analyst_llm_node" THEN g ELSE NPRINTING_MONITORED[g]

ClassifyRun(j) ==
  IF j.op = "analyst_llm_node" THEN analyst_llm_run(j) ELSE nprinting_analyst_run(j)

\* The report map in the update of a classify stage.
ReportMapOf(j, r) ==
  IF j.op = "analyst_llm_node" THEN r.update.process_reports[1]
  ELSE r.update.nprinting_reports[1]

\* Group g has rows the collaborator is asked about.
Asked(j, r, g) ==
  /\ r.returned /\ r.partitions # None /\ g \notin j.fails
  /\ \E i \in 1..Len(r.partitions[1][g]) :
       j.op = "analyst_llm_node" => Get(r.partitions[1][g][i], "Enabled", "") = "Yes"

\* C11: for a group whose collaborator fails or answers invalidly on every
\* attempt (a bare list of raw task rows included), the collaborator is
\* invoked exactly 3 times and the group's report is {status: Error, summary:
\* "LLM Analysis failed: ..."}; the reports of the other groups are what they
\* are when that group's collaborator succeeds.
C11_ExhaustedRetriesContained ==
  Classified =>
    \A g \in GroupKeys(job[1]) :
      (Asked(job[1], res[1], g) /\ job[1].llm[g] \in FailingReplies) =>
        /\ res[1].calls[g] = 3
        /\ ReportKey(job[1], g) \in DOMAIN ReportMapOf(job[1], res[1])
        /\ ReportMapOf(job[1], res[1])[ReportKey(job[1], g)].status = "Error"
        /\ ReportMapOf(job[1], res[1])[ReportKey(job[1], g)].summary[1]
             = "LLM Analysis failed: "
        /\ LET alt == ClassifyRun([job[1] EXCEPT !.llm[g] = <<Good, Good, Good>>]) IN
           \A h \in GroupKeys(job[1]) \ ({g} \cup job[1].fails) :
             /\ ReportMapOf(job[1], res[1])[ReportKey(job[1], h)]
                  = ReportMapOf(job[1], alt)[ReportKey(job[1], h)]
             /\ res[1].calls[h] = alt.calls[h]

C11_Witness ==
  /\ Classified /\ job[1].op = "analyst_llm_node" /\ job[1].fails = {}
  /\ job[1].llm["FE_HITOS_DIARIO"] = <<RawList, RawList, RawList>>
  /\ Asked(job[1], res[1], "FE_HITOS_DIARIO") /\ Asked(job[1], res[1], "FE_PASIVOS")
  /\ res[1].calls["FE_HITOS_DIARIO"] = 3
  /\ res[1].update.process_reports[1]["FE_HITOS_DIARIO"].status = "Error"
  /\ res[1].update.process_reports[1]["FE_PASIVOS"].status = "Failed"
  /\ res[1].calls["FE_PASIVOS"] = 3

\* The names of the configured groups in a source's report map.
ConfiguredGroups(j) == {ReportKey(j, g) : g \in GroupKeys(j)}

\* C12: whatever the rows (the empty list included) and whatever the
\* collaborator does, the report map of a classify stage has an entry for
\* every configured group and no other key.
C12_ReportMapComplete ==
  (Classified /\ job[1].fails = {}) =>
    /\ res[1].returned
    /\ DOMAIN ReportMapOf(job[1], res[1]) = ConfiguredGroups(job[1])

\* C13: an exception in one group's analysis task is captured with that task:
\* the stage still returns a report map, and every other group has the report
\* and the collaborator invocations it has when no task raises.
C13_TaskExceptionCaptured ==
  (Classified /\ job[1].all_tasks # <<>> /\ job[1].fails # {}) =>
    /\ res[1].returned
    /\ LET alt == ClassifyRun([job[1] EXCEPT !.fails = {}]) IN
       \A h \in GroupKeys(job[1]) \ job[1].fails :
         /\ ReportKey(job[1], h) \in DOMAIN ReportMapOf(job[1], res[1])
         /\ ReportMapOf(job[1], res[1])[ReportKey(job[1], h)]
              = ReportMapOf(job[1], alt)[ReportKey(job[1], h)]
         /\ res[1].calls[h] = alt.calls[h]

C13_Witness ==
  /\ Classified /\ job[1].op = "nprinting_analyst_node" /\ job[1].fails = {"h."}
  /\ res[1].returned
  /\ "Hitos" \notin DOMAIN res[1].update.nprinting_reports[1]
  /\ "Cobranzas" \in DOMAIN res[1].update.nprinting_reports[1]
  /\ res[1].update.nprinting_reports[1]["Cobranzas"].status = "Success"
  /\ res[1].calls["x."] = 1

\* The groups of a classify stage whose partition is empty while the source
\* has rows.
EmptyGroups(j, r) ==
  IF r.returned /\ r.partitions # None
  THEN {g \in GroupKeys(j) \ j.fails : r.partitions[1][g] = <<>>}
  ELSE {}

\* C25 as stated: every such group is recorded as {status: Pending, summary:
\* "Tasks have not been executed yet."} with no collaborator invocation,
\* whichever the source.
C25_EmptyPartitionIsPending ==
  Classified =>
    \A g \in EmptyGroups(job[1], res[1]) :
      /\ ReportMapOf(job[1], res[1])[ReportKey(job[1], g)].status = "Pending"
      /\ ReportMapOf(job[1], res[1])[ReportKey(job[1], g)].summary
           = <<"Tasks have not been executed yet.">>
      /\ res[1].calls[g] = 0

\* C25 as amended: every such group is recorded with status Pending and no
\* collaborator invocation; the summary is "No execution records found for
\* today." in the QMC analyzer and "Tasks have not been executed yet." (with
\* the prefix and task_count 0) in the NPrinting analyzer.
C25_EmptyPartitionPendingPerSource ==
  Classified =>
    \A g \in EmptyGroups(job[1], res[1]) :
      /\ res[1].calls[g] = 0
      /\ ReportMapOf(job[1], res[1])[ReportKey(job[1], g)]
           = IF job[1].op = "analyst_llm_node"
             THEN [status |-> "Pending",
                   summary |-> <<"No execution records found for today.">>]
             ELSE [status |-> "Pending", summary |-> <<"Tasks have not been executed yet.">>,
                   prefix |-> g, task_count |-> 0]

C25_Witness ==
  /\ Classified /\ job[1].op = "analyst_llm_node" /\ job[1].fails = {}
  /\ job[1].all_tasks # <<>>
  /\ "FE_HITOS_DIARIO" \in EmptyGroups(job[1], res[1])
  /\ job[1].llm["FE_HITOS_DIARIO"] = <<RawList, RawList, RawList>>
  /\ res[1].update.process_reports[1]["FE_HITOS_DIARIO"].status = "Pending"
  /\ res[1].calls["FE_HITOS_DIARIO"] = 0
  /\ res[1].update.process_reports[1]["FE_PASIVOS"].status = "No Run"

\* Text k occurs in text s at some position.
Contains(s, k) == \E i \in 0..(Len(s) - Len(k)) : \A n \in 1..Len(k) : s[i + n] = k[n]

\* The positions of the job's rows whose tag cell contains the key of group g.
Matching(j, g) ==
  {i \in 1..Len(j.all_tasks) : Contains(Get(j.all_tasks[i], "Tags", <<>>), TagChars(g))}

\* The n-th smallest element of a set of positions.
Nth(S, n) == CHOOSE i \in S : Cardinality({k \in S : k < i}) = n - 1

\* C27: a row is in the partition of group g if and only if g's key occurs in
\* the row's tag text: the partition of g is the rows at the matching
\* positions, in input order, so a row whose tags contain k keys is in
\* exactly those k partitions and a row matching no key is in none.
C27_SubstringPartitioning ==
  (Classified /\ job[1].op = "analyst_llm_node" /\ res[1].partitions # None) =>
    \A g \in DOMAIN MONITORED_PROCESSES :
      LET part == res[1].partitions[1][g] IN
      /\ Len(part) = Cardinality(Matching(job[1], g))
      /\ \A n \in 1..Len(part) : part[n] = job[1].all_tasks[Nth(Matching(job[1], g), n)]

C27_Witness ==
  /\ Classified /\ job[1].op = "analyst_llm_node" /\ res[1].partitions # None
  /\ Len(job[1].all_tasks) = 2
  /\ job[1].all_tasks[1].Name = "t7" /\ job[1].all_tasks[2].Name = "t2"
  /\ res[1].partitions[1]["FE_PASIVOS"] = job[1].all_tasks
  /\ res[1].partitions[1]["FE_HITOS_DIARIO"] = <<job[1].all_tasks[2]>>
  /\ res[1].partitions[1]["FE_PRODUCCION"] = <<>>

\* The statuses a group report can have.
GroupReportStatus ==
  {"No Data", "No Run", "Pending", "Success", "Running", "Failed", "Error"}

\* Answers of the collaborator that the output schema rejects.
InvalidReplies == {BadStatus, NoSummary}

\* C28: every entry of a report map produced by a group analyzer has a status
\* in {No Data, No Run, Pending, Success, Running, Failed, Error} and a
\* summary; an answer whose status is outside {Success, Running, Failed,
\* Pending} or that has no summary is not passed through: it is followed by
\* another attempt, or by the Error report when it was the last attempt.
C28_InvalidAnswerNeverPassedThrough ==
  (Classified /\ res[1].returned) =>
    /\ \A k \in DOMAIN ReportMapOf(job[1], res[1]) :
         /\ ReportMapOf(job[1], res[1])[k].status \in GroupReportStatus
         /\ "summary" \in DOMAIN ReportMapOf(job[1], res[1])[k]
    /\ \A g \in GroupKeys(job[1]) :
         Asked(job[1], res[1], g) =>
           \A i \in 1..res[1].calls[g] :
             job[1].llm[g][i] \in InvalidReplies =>
               \/ res[1].calls[g] > i
               \/ /\ i = stop_after_attempt
                  /\ ReportMapOf(job[1], res[1])[ReportKey(job[1], g)].status = "Error"

C28_Witness ==
  /\ Classified /\ job[1].op = "nprinting_analyst_node" /\ job[1].fails = {}
  /\ Asked(job[1], res[1], "h.") /\ Asked(job[1], res[1], "x.")
  /\ job[1].llm["h."] = <<NoSummary, BadStatus, Good>>
  /\ job[1].llm["x."] = <<Raise, NoSummary, BadStatus>>
  /\ res[1].calls["h."] = 3 /\ res[1].calls["x."] = 3
  /\ res[1].update.nprinting_reports[1]["Hitos"].status = "Success"
  /\ res[1].update.nprinting_reports[1]["Cobranzas"].status = "Error"

\* C20: the partition map of a classify stage has exactly the configured
\* group keys for every row list; for the empty list every key is mapped to
\* the empty list.
C20_PartitionComplete ==
  Classified =>
    /\ res[1].partitions # None
    /\ DOMAIN res[1].partitions[1] = GroupKeys(job[1])
    /\ job[1].all_tasks = <<>> => \A g \in GroupKeys(job[1]) : res[1].partitions[1][g] = <<>>

\* ------------------------------------------ group analysis on its own
\* The group analysis has been applied to the job's rows.
Grouped == job # None /\ res # None /\ job[1].op = "analyze_group"

\* Every row of the job is disabled.
AllDisabled ==
  \A i \in 1..Len(job[1].tasks) : Get(job[1].tasks[i], "Enabled", "") = "No"

\* C21: the group analysis returns No Data for the empty row list and No Run
\* for a non-empty row list in which every row has Enabled = "No"; in both
\* cases the collaborator is not invoked.
C21_NoDataAndNoRun ==
  Grouped =>
    /\ job[1].tasks = <<>> =>
         /\ res[1].report = [status |-> "No Data",
                             summary |-> <<"No tasks found for this process today.">>]
         /\ res[1].calls = 0
    /\ (job[1].tasks # <<>> /\ AllDisabled) =>
         /\ res[1].report.status = "No Run"
         /\ res[1].calls = 0

C21_Witness ==
  /\ Grouped /\ Len(job[1].tasks) = 2 /\ AllDisabled
  /\ job[1].tasks[1] # job[1].tasks[2]
  /\ job[1].replies = <<Good, Good, Good>>
  /\ res[1].report.status = "No Run" /\ res[1].calls = 0 /\ res[1].sent = <<>>

\* C26: the rows handed to the collaborator are exactly the group's rows
\* whose Enabled is not "No" (rows with Enabled "Yes" or without Enabled are
\* kept), and the group is reported No Run only when every row is disabled.
C26_OnlyDisabledRowsExcluded ==
  (Grouped /\ job[1].tasks # <<>>) =>
    LET kept == SelectSeq(job[1].tasks, LAMBDA t : Get(t, "Enabled", "") # "No") IN
    /\ res[1].report.status = "No Run" <=> AllDisabled
    /\ ~AllDisabled =>
         /\ res[1].calls >= 1
         /\ res[1].sent = [i \in 1..Len(kept) |-> simplified(kept[i])]

\* ------------------------------------ deterministic classifier on its own
\* The deterministic classifier has been applied to the job's rows.
RowsClassified == job # None /\ res # None /\ job[1].op = "analyze_process_status"

\* The job has a row whose status is one of the given labels.
HasRow(labels) == \E i \in 1..Len(job[1].tasks) : job[1].tasks[i].Status \in labels

\* The Failed vocabulary, in the spellings of the task table.
FailedVocabulary ==
  {"Failed", "failed", "Error", "Aborted", "Skipped", "Never started", "Reset"}

\* C22: the deterministic classifier returns Failed (Fallido) for every row
\* set with at least one row whose status is, case-insensitively, Failed,
\* Error, Aborted, Skipped, Never started or Reset, whatever the other rows.
C22_FailedVocabularyIsFailed ==
  (RowsClassified /\ HasRow(FailedVocabulary)) => res[1].estado = "Fallido"

\* C23: Failed dominates Running: every row set with at least one Failed row
\* and at least one Running row is classified Failed (Fallido), never Running
\* (En proceso).
C23_FailedDominatesRunning ==
  (RowsClassified /\ HasRow({"Failed", "failed"}) /\ HasRow({"Running", "Started"}))
    => res[1].estado = "Fallido"

C23_Witness ==
  /\ RowsClassified
  /\ job[1].tasks = <<[Name |-> "t", Status |-> "Running"], [Name |-> "t", Status |-> "failed"]>>
  /\ res[1].resumen.en_ejecucion = 1 /\ res[1].resumen.fallidas = 1
  /\ res[1].estado = "Fallido"

\* ------------------------------------------------ the runner on its own
\* The runner has been applied to the job.
Ran == job # None /\ res # None /\ job[1].op = "run_playwright_script"

\* C32: the runner never raises to the calling stage: for a missing script,
\* a non-zero exit code, output that is not JSON, a timeout and any other
\* exception it returns a record with success = false and an error text;
\* otherwise it returns the script's parsed output unchanged.
C32_RunnerNeverRaises ==
  Ran =>
    /\ "raised" \notin DOMAIN res[1]
    /\ job[1].proc # "ran" =>
         /\ "success" \in DOMAIN res[1] /\ res[1].success = FALSE
         /\ "error" \in DOMAIN res[1] /\ res[1].error # <<>>
    /\ job[1].proc = "ran" => res[1] = job[1].output

C32_Witness ==
  /\ Ran /\ job[1].proc = "timeout" /\ job[1].output.success
  /\ res[1] = [success |-> FALSE, error |-> <<"Script timed out after 120 seconds">>]

\* ------------------------------------------------- combine on its own
\* The combine stage has been applied to the job.
Combined == job # None /\ res # None /\ job[1].op = "combined_analyst_node"

\* The two report maps the combine stage read.
QmcMap == OrElse(job[1].qmc, EmptyMap)
NPrintingMap == OrElse(job[1].nprinting, EmptyMap)
BothEmpty == QmcMap = EmptyMap /\ NPrintingMap = EmptyMap

CombinedReport == res[1].update.combined_report[1]

\* The group statuses of both maps without No Data and No Run.
Remaining ==
  ({QmcMap[g].status : g \in DOMAIN QmcMap}
   \cup {NPrintingMap[g].status : g \in DOMAIN NPrintingMap}) \ {"No Data", "No Run"}

\* The reference precedence over the remaining statuses.
Reference ==
  IF "Failed" \in Remaining THEN "Failed"
  ELSE IF "Error" \in Remaining THEN "Failed"
  ELSE IF "Running" \in Remaining THEN "Running"
  ELSE IF "Pending" \in Remaining THEN "Pending"
  ELSE IF \A x \in Remaining : x = "Success" THEN "Success"
  ELSE "Pending"

\* C14: for report maps that are not both empty, overall_status is the
\* reference precedence over the statuses of both maps with No Data and No
\* Run removed: Failed, else Error as Failed, else Running, else Pending, else
\* Success if all remaining are Success, otherwise Pending.
C14_OverallStatusIsReference ==
  (Combined /\ ~BothEmpty) => CombinedReport.overall_status = Reference

\* C15: with both report maps empty or absent the combined report has
\* overall_status Pending and the fixed summary; the summary collaborator is
\* not invoked, so what it would do changes nothing.
C15_EmptyInputIsPending ==
  (Combined /\ BothEmpty) =>
    /\ DOMAIN res[1].update = {"combined_report", "logs"}
    /\ CombinedReport = [overall_status |-> "Pending", summary |-> [kind |-> "not executed"]]

C15_Witness ==
  /\ Combined /\ job[1].qmc = None /\ job[1].nprinting = Some(EmptyMap)
  /\ ~res[1].llm_ok /\ CombinedReport.overall_status = "Pending"

\* C16: overall_status is always one of Failed, Running, Pending, Success,
\* also when the maps are not empty and every group is No Data or No Run.
C16_OverallStatusVocabulary ==
  Combined => CombinedReport.overall_status \in {"Failed", "Running", "Pending", "Success"}

\* The overall_status of combining report fields a and b.
OverallOf(a, b) ==
  combined_analyst_node([process_reports |-> a, nprinting_reports |-> b],
                        TRUE).combined_report[1].overall_status

\* C17: combining a report map with itself gives the overall_status of
\* combining it with the empty map, on either side.
C17_CombinerIdempotent ==
  (Combined /\ job[1].qmc = job[1].nprinting) =>
    /\ CombinedReport.overall_status = OverallOf(job[1].qmc, Some(EmptyMap))
    /\ CombinedReport.overall_status = OverallOf(Some(EmptyMap), job[1].nprinting)

C17_Witness ==
  /\ Combined /\ job[1].qmc = job[1].nprinting /\ job[1].qmc # None
  /\ DOMAIN QmcMap = {"g1", "g2"}
  /\ QmcMap["g1"].status = "Failed" /\ QmcMap["g2"].status = "Success"
  /\ CombinedReport.overall_status = "Failed"

\* The groups of a report map that failed.
FailingGroups(m) == {g \in DOMAIN m : m[g].status \in {"Failed", "Error"}}

\* C18: when the summary collaborator fails, the combine stage still returns
\* a combined report; its summary is the template for the overall_status,
\* filled from the two report maps (at most 3 failing group names); the
\* update has no error field, differs from the one of a successful
\* collaborator in the summary only, and the report stage follows and
\* returns the same.
C18_SummaryFailureContained ==
  (Combined /\ ~BothEmpty /\ ~res[1].llm_ok) =>
    LET ok == combined_analyst_node([process_reports |-> job[1].qmc,
                                     nprinting_reports |-> job[1].nprinting], TRUE)
        summary == CombinedReport.summary
        failing == Cardinality(FailingGroups(QmcMap)) + Cardinality(FailingGroups(NPrintingMap))
    IN /\ DOMAIN res[1].update = {"combined_report", "logs"}
       /\ res[1].update.logs = ok.logs
       /\ [CombinedReport EXCEPT !.summary = None]
            = [ok.combined_report[1] EXCEPT !.summary = None]
       /\ summary.kind = "fallback"
       /\ CombinedReport.overall_status = "Failed" =>
            /\ summary.n = failing
            /\ Len(summary.names) = (IF failing < 3 THEN failing ELSE 3)
            /\ \A i \in 1..Len(summary.names) :
                 summary.names[i] \in FailingGroups(QmcMap) \cup FailingGroups(NPrintingMap)
            /\ summary.ellipsis = (failing > 3)
       /\ CombinedReport.overall_status = "Success" =>
            summary.n = Cardinality(DOMAIN QmcMap) + Cardinality(DOMAIN NPrintingMap)
       /\ CombinedReport.overall_status \notin {"Failed", "Success"} =>
            /\ summary.qmc = Cardinality(DOMAIN QmcMap)
            /\ summary.nprinting = Cardinality(DOMAIN NPrintingMap)
       /\ edges_after_combined_analyst(View(res[1].update)) = {"reporter"}
       /\ \A ok_render \in BOOLEAN :
            reporter_node(View(res[1].update), "ran", ok_render)
              = reporter_node(View(ok), "ran", ok_render)

C18_Witness ==
  /\ Combined /\ ~res[1].llm_ok
  /\ Cardinality(FailingGroups(QmcMap)) = 2 /\ Cardinality(FailingGroups(NPrintingMap)) = 2
  /\ CombinedReport.overall_status = "Failed"
  /\ CombinedReport.summary.kind = "fallback"
  /\ CombinedReport.summary.names = <<"g1", "g2", "g1">>
  /\ CombinedReport.summary.ellipsis

\* C38: the overall_status of the combined report is symmetric in the two
\* report maps: combining them in the other order gives the same
\* overall_status, and so does determine_overall_status on its own.
C38_OverallStatusSymmetric ==
  Combined =>
    /\ CombinedReport.overall_status = OverallOf(job[1].nprinting, job[1].qmc)
    /\ determine_overall_status(QmcMap, NPrintingMap)
         = determine_overall_status(NPrintingMap, QmcMap)

C38_Witness ==
  /\ Combined
  /\ DOMAIN QmcMap = {"g1"} /\ QmcMap["g1"].status = "Success"
  /\ DOMAIN NPrintingMap = {"g1", "g2"}
  /\ NPrintingMap["g1"].status = "Running" /\ NPrintingMap["g2"].status = "Error"
  /\ CombinedReport.overall_status = "Failed"
  /\ OverallOf(job[1].nprinting, job[1].qmc) = "Failed"

\* The sum of the values of a function with a finite domain.
RECURSIVE SumOf(_)
SumOf(f) ==
  IF DOMAIN f = {} THEN 0
  ELSE LET k == CHOOSE x \in DOMAIN f : TRUE IN f[k] + SumOf([x \in DOMAIN f \ {k} |-> f[x]])

\* The report map of a source and its part of the combined report.
SourceMap(side) == IF side = "qmc" THEN QmcMap ELSE NPrintingMap

\* Every group of both maps has a status of the status enum.
StatusesInEnum ==
  \A side \in {"qmc", "nprinting"} :
    \A g \in DOMAIN SourceMap(side) : SourceMap(side)[g].status \in GroupReportStatus

Produced(c) ==
  \/ OrElse(ReportsOf(c), EmptyMap) # EmptyMap
  \/ /\ AnalystOf(c) \in DOMAIN writes
     /\ LET u == writes[AnalystOf(c)] IN
        \E k \in {"process_reports", "nprinting_reports"} \cap DOMAIN u :
          OrElse(u[k], EmptyMap) # EmptyMap

\* C19: in a run in which a chain has been routed to error and a source has
\* produced a non-empty report map, the report stage is executed before the
\* run ends, and it invokes the renderer whenever a report map is not empty.
C19_FailedRunStillRenders ==
  /\ (status \in {"done", "crashed"}
      /\ (\E c \in Chains : pos[c] = "error") /\ (\E c \in Chains : Produced(c)))
     => runs["reporter"] >= 1
  /\ ("reporter" \in DOMAIN writes
      /\ \E c \in Chains : OrElse(ReportsOf(c), EmptyMap) # EmptyMap)
     => writes["reporter"].logs # <<Line("No reports available to visualize.")>>

C19_Witness ==
  /\ status = "done" /\ pos["A"] = "error" /\ runs["error"] >= 1
  /\ OrElse(st.nprinting_reports, EmptyMap) # EmptyMap
  /\ OrElse(st.process_reports, EmptyMap) = EmptyMap
  /\ runs["reporter"] >= 1 /\ st.report_image_path # None

====
